---- MODULE Spec2Model ----
(***************************************************************************)
(* Model of the rate limiter (src/src/concurrency_throttler.py) and of the *)
(* pool-listing fetcher that consumes it (src/src/aggregator_hpc_async.py).*)
(*                                                                         *)
(* Specifications.  Spec: the throttler with its callers and rate-limit    *)
(* signals.  WindowSpec: the throttler without rate-limit signals, with an *)
(* observer that adds up the grants of one interval.  LiveSpec: Spec with  *)
(* finitely many rate-limit signals and a fair scheduler.  FetchSpec and   *)
(* FetchLiveSpec: one call of fetch_defillama_pools_async.  RiskSpec: one  *)
(* call of RiskAgent.assess_token (src/src/agents/risk_agent.py) with its  *)
(* three sub-checks run by asyncio.gather.                                 *)
(* PoolSpec and PipelineSpec: parse_defillama_data, augment_pool_features,*)
(* prune_pool and rank_pools on one raw object with every field varied,    *)
(* and on lists of raw objects.  CancelSpec: FetchSpec with the task of    *)
(* the fetch cancelled at an await.  CacheSpec: the pool cache file, one   *)
(* call writing it and calls of other processes reading it.  HistorySpec:  *)
(* one call of _do_fetch_remote_history (src/src/historical_data.py).      *)
(* BackoffSpec: FetchSpec under every retry ceiling of the configuration.  *)
(* OversizeSpec: Spec with callers that ask for more tokens than the       *)
(* budget holds.  AgentSpec: one HeavyAgent with its receiver task and     *)
(* concurrent send_request calls                                           *)
(* (src/heavy-agentkit-bridge/src/elizaos/elizaos_agent.py).               *)
(*                                                                         *)
(* Time.  The clock is counted in ticks of one poll interval (the sleep of *)
(* acquire, line 100).  The refill period of refill_capacity, 60 seconds   *)
(* in the source, is MinuteTicks ticks here.  The source keeps absolute    *)
(* timestamps (last_update_time, time_of_last_rate_limit_error); the model *)
(* keeps the two differences the code computes from them,                  *)
(*   since_update     = time.time() - last_update_time                     *)
(*   since_rate_limit = time.time() - time_of_last_rate_limit_error        *)
(* each capped where a larger value changes no result of the code.         *)
(*                                                                         *)
(* Budgets.  available_requests and available_tokens are floats in the     *)
(* source; a refill adds max*elapsed/60.  The model stores them in units   *)
(* of 1/MinuteTicks, so that every value the code can produce is an        *)
(* integer: a budget b of the source is b*MinuteTicks here.                *)
(***************************************************************************)
EXTENDS Integers, Sequences, FiniteSets, TLC

\* ---------------------------------------------------------------- bounds
\* ticks in the 60-second refill period
MinuteTicks == 2
\* number of tasks that call acquire on the one throttler
NumCallers == 2
\* largest cost (tokens_needed) a caller asks for
MaxCost == 2
\* note_rate_limit_error calls in one behaviour
MaxNotes == 2
\* throttler configuration (constructor arguments, lines 47-49); the budgets
\* per refill period, and the cooldown in ticks
max_requests_per_minute == 2
max_tokens_per_minute == 2
rate_limit_backoff_seconds == 2

\* the sleep of one poll (asyncio.sleep(0.05)), the unit of the clock
PollInterval == 1

\* the default of maxFetchRetries, line 33
DefaultMaxFetchRetries == 3
\* largest maxFetchRetries a configuration file is given
MaxRetryCeiling == 6
\* backoff = 2, the first backoff of a fetch in seconds
FirstBackoff == 2
\* min(backoff * 2, 30)
BackoffCap == 30
\* acquire(num_tokens=50), the weight of the pool listing
FetchTokens == 50

\* acquire(num_tokens=30) of the two DexScreener checks, acquire(num_tokens=10)
\* of the holder-distribution check
PairTokens == 30
HolderTokens == 10
\* the share _fetch_top_10_percent returns when it has no data
TopTenFallback == 100
\* longest raw provider list the pipeline is given
MaxPools == 2
\* most calls of rank_pools on one list
MaxRankCalls == 2
\* the default weights of final_score_formula, in thousandths
alpha == 10000
beta == 3000
gamma == 800
delta == 20
\* send_request calls made on one HeavyAgent
MaxRequests == 2
\* processes that read the pool cache file while it is written
NumReaders == 2
\* most writes of the pool cache file
MaxWrites == 2
\* max_attempts, the first backoff and its cap in _do_fetch_remote_history
HistMaxAttempts == 5
HistFirstBackoff == 1
HistBackoffCap == 30
\* the epsilon 1e-9 of augment_pool_features, in units of 1e-9
RatioEpsilon == 1
\* the ratio 999.0 of a pool without volatility, in thousandths
RatioSentinel == 999000

Callers == 1..NumCallers
Calls == 1..MaxRequests

\* self.callbacks = {}, line 55
NoCallbacks == [id \in {} |-> 0]

\* a send_request call that has not been made
NotCalled == [pc |-> "idle", request_id |-> "", response |-> "", at_bridge |-> FALSE]
Readers == 1..NumReaders

\* the sub-checks of assess_token in the order asyncio.gather is given them
CheckOrder == <<"liquidity", "volume", "holders">>
Checks == {CheckOrder[i] : i \in 1..Len(CheckOrder)}

\* the requests of the sub-checks: DexScreener pairs for the liquidity and for
\* the volume check, Etherscan tokensupply and Moralis holders for the
\* holder-distribution check
Endpoints == {"liquidity", "volume", "supply", "holders"}

\* the thresholds in units of the value a passing answer carries (Level):
\* the minimums are 0 or 1, the largest top-10 share is 50 or 100 percent
ThresholdConfigs ==
    [MIN_LIQUIDITY_USD : {0, 1}, MIN_VOLUME_24H_USD : {0, 1},
     MIN_UNIQUE_HOLDERS : {0, 1}, MAX_TOP_HOLDERS_PERCENT : {50, TopTenFallback}]

\* the defaults of lines 30-33: every minimum positive, 50 percent
DefaultThresholds ==
    [MIN_LIQUIDITY_USD |-> 1, MIN_VOLUME_24H_USD |-> 1,
     MIN_UNIQUE_HOLDERS |-> 1, MAX_TOP_HOLDERS_PERCENT |-> 50]
\* the configurations the models load: every key present, the defaults of the
\* code among the values
AggregatorConfigs ==
    [minApy : {1000, 10000}, minTvl : {1000000, 2000000},
     maxChainFactor : {1000, 1300, 2000}, fallbackVol : {0, 50},
     bridgingPenalty : {0, 500}, lsdBridgingMultiplierPenalty : {0, 250},
     maxFetchRetries : {DefaultMaxFetchRetries}]

\* the values the code takes for keys the configuration file does not have,
\* lines 32, 332-334 and 357-358
DefaultConfig ==
    [minApy |-> 1000, minTvl |-> 1000000, maxChainFactor |-> 2000, fallbackVol |-> 50,
     bridgingPenalty |-> 0, lsdBridgingMultiplierPenalty |-> 0,
     maxFetchRetries |-> DefaultMaxFetchRetries]

\* configurations that set maxFetchRetries and no other key
RetryConfigs ==
    {[DefaultConfig EXCEPT !.maxFetchRetries = n] : n \in 0..MaxRetryCeiling}

\* configurations that differ from the defaults in the thresholds of apy and
\* of the chain factor only
LeanConfigs ==
    {cfg \in AggregatorConfigs :
        /\ cfg.minTvl = DefaultConfig.minTvl
        /\ cfg.maxChainFactor \in {1000, 2000}
        /\ cfg.fallbackVol = DefaultConfig.fallbackVol
        /\ cfg.bridgingPenalty = DefaultConfig.bridgingPenalty
        /\ cfg.lsdBridgingMultiplierPenalty = DefaultConfig.lsdBridgingMultiplierPenalty}

\* value of mark_age when no interval is observed
NoMark == MinuteTicks + 1

VARIABLES
    available_requests,   \* self.available_requests, in 1/MinuteTicks
    available_tokens,     \* self.available_tokens, in 1/MinuteTicks
    since_update,         \* time.time() - self.last_update_time, capped at MinuteTicks
    since_rate_limit,     \* time.time() - self.time_of_last_rate_limit_error, capped at the backoff
    pc,                   \* per caller: "idle", "cooldown" (line 92), "poll" (line 100), "granted" (line 98)
    tokens_needed,        \* per caller: the argument of its acquire call
    timer,                \* per caller: ticks left of its asyncio.sleep
    issued_in_cooldown,   \* observer, per caller: its acquire call was issued while a cooldown was running
    cooldown_left,        \* observer, per caller: ticks left of the cooldown its call was issued in
    note_age,             \* observer: ticks since the most recent note_rate_limit_error call, capped at the backoff
    notes,                \* number of note_rate_limit_error calls so far (counted in LiveSpec only)
    mark_age,             \* observer: ticks since the start of the observed interval, NoMark if none
    mark_requests,        \* observer: request budget banked at the start of the interval
    mark_tokens,          \* observer: token budget banked at the start of the interval
    granted_requests,     \* observer: grants since the start of the interval
    granted_tokens,       \* observer: cost granted since the start of the interval
    fetch_pc,             \* fetch_defillama_pools_async: "idle", "loop", "acquire", "http", "sleep_429", "sleep_error", "done"
    concurrency,          \* argument: a throttler is given (TRUE) or None (FALSE)
    use_cache,            \* argument use_cache
    cache_found,          \* what the call finds at cache_file
    attempt,              \* local variable attempt
    backoff,              \* local variable backoff, in seconds
    raw_pools,            \* local variable raw_pools: "empty" or "pools"
    result,               \* value returned to the caller: "none" while running
    raised,               \* exception that left the call: "none" if none
    responses,            \* outcomes of the HTTP requests of the call, in order
    sleeps,               \* durations of the backoff sleeps of the call, in order
    http_attempts,        \* observer: HTTP requests issued by the call
    note_calls,           \* observer: note_rate_limit_error calls made by the call
    acquire_calls,        \* observer: acquire calls made by the call
    acquire_errors,       \* observer: acquire calls that raised to the call
    cache_written,        \* the call has written cache_file
    assess_pc,            \* assess_token: "idle", "gather" (line 71), "done"
    supplied,             \* argument concurrency: a throttler is given (TRUE) or None (FALSE)
    moralis_key,          \* MORALIS_API_KEY is set
    thresholds,           \* the four risk thresholds read from the configuration, lines 30-33
    provider,             \* per endpoint: what the provider answers to a request
    check_pc,             \* per sub-check: "idle", "new", "acquire", "http", "done", "raised"
    check_result,         \* per sub-check: the value it returned
    check_error,          \* per sub-check: the exception raised inside it, "none" if none
    check_notes,          \* observer, per sub-check: its note_rate_limit_error calls
    verdict,              \* the value assess_token returned
    assess_raised,        \* exception that left assess_token, "none" if none
    risk_http,            \* observer: HTTP requests sent by the sub-checks
    false_while_pending,  \* observer: a sub-check ended with False while a sibling had not ended
    AGGREGATOR_CFG,       \* the configuration of the aggregator module
    raw_list,             \* the raw provider list parse_defillama_data was given
    synergy_pools,        \* the list of synergy pool dicts
    pipeline_pc,          \* "import", "loaded", "parsed", "augmented", "pruned", "ranked", "raised"
    pipeline_raised,      \* exception that left a pipeline function, "none" if none
    rank_calls,           \* rank_pools calls on the list so far
    fetch_cancelled,      \* the task awaiting fetch_defillama_pools_async was cancelled
    cache_state,          \* the text in the cache file: "absent", "empty", "partial", "complete"
    cache_payload,        \* the write the text in the cache file comes from, 0 if none
    cache_fresh,          \* the cache file is younger than CACHE_MAX_AGE
    writer_pc,            \* the writing call: "idle", "open" (line 158), "flushed" (line 159)
    writes,               \* writes of the cache file begun so far
    reader_pc,            \* per reader: "idle", "open" (line 102), "hit" (line 110), "miss"
    observed,             \* per reader: the cache_state it read, "none" before
    observed_payload,     \* per reader: the cache_payload it read
    hist_pc,              \* _do_fetch_remote_history: "idle", "request", "sleep_429", "sleep_error", "returned", "raised"
    hist_attempt,         \* local variable attempt
    hist_backoff,         \* local variable backoff, in seconds
    hist_answers,         \* answers to the requests of the call, in order
    hist_raised,          \* exception that left the call, "none" if none
    hist_sleeps,          \* durations of the time.sleep calls of the call, in order
    connected,            \* HeavyAgent.connected
    request_id,           \* HeavyAgent.request_id, the counter of request ids
    callbacks,            \* HeavyAgent.callbacks: request id -> the send_request call whose callback it holds
    agent_calls,          \* per send_request call: where it is, its request id, the response it returned, whether the bridge holds its request
    inbound               \* request ids of the responses the bridge has sent and the agent has not read

throttler == <<available_requests, available_tokens, since_update, since_rate_limit>>
callers == <<pc, tokens_needed, timer, issued_in_cooldown, cooldown_left>>
observer == <<mark_age, mark_requests, mark_tokens, granted_requests, granted_tokens>>
fetch == <<fetch_pc, concurrency, use_cache, cache_found, attempt, backoff, raw_pools,
           result, raised, responses, sleeps, http_attempts, note_calls, acquire_calls,
           acquire_errors, cache_written>>
risk == <<assess_pc, supplied, moralis_key, thresholds, provider, check_pc, check_result,
          check_error, check_notes, verdict, assess_raised, risk_http, false_while_pending>>
pipeline == <<AGGREGATOR_CFG, raw_list, synergy_pools, pipeline_pc, pipeline_raised,
              rank_calls>>
\* the throttler and the functions that send requests
online == <<throttler, callers, note_age, notes, observer, fetch, risk>>
cachefile == <<cache_state, cache_payload, cache_fresh, writer_pc, writes, reader_pc,
               observed, observed_payload>>
history == <<hist_pc, hist_attempt, hist_backoff, hist_answers, hist_raised, hist_sleeps>>
\* what the actions of the throttler, of the fetch and of the risk agent leave alone
agent == <<connected, request_id, callbacks, agent_calls, inbound>>
aside == <<pipeline, cachefile, history, fetch_cancelled, agent>>
not_pipeline == <<online, cachefile, history, fetch_cancelled, agent>>
not_cachefile == <<online, pipeline, history, fetch_cancelled, agent>>
not_history == <<online, pipeline, cachefile, fetch_cancelled, agent>>
not_agent == <<online, pipeline, cachefile, history, fetch_cancelled>>
vars == <<online, aside>>

Min(a, b) == IF a < b THEN a ELSE b

\* ------------------------------------------------- ConcurrencyThrottler
\* variant: the refill is computed with a whole-number division that rounds
\* every refill of less than a full period down to nothing
RefillWholePeriods(max_per_minute, elapsed) ==
    max_per_minute * MinuteTicks * (elapsed \div MinuteTicks)

\* (max * elapsed) / 60.0, in 1/MinuteTicks
RefillAmount(max_per_minute, elapsed) == max_per_minute * elapsed

\* variant: the refill is not capped at the maximum
Uncapped(amount, max_per_minute) == amount

\* min(available + refill, max), lines 71-72
Capped(amount, max_per_minute) == Min(amount, max_per_minute * MinuteTicks)

Refilled(available, max_per_minute, elapsed) ==
    Capped(available + RefillAmount(max_per_minute, elapsed), max_per_minute)

\* variant: last_update_time is not moved, the same time is credited again
ElapsedKept(elapsed) == elapsed

\* self.last_update_time = current_time: nothing has elapsed since the update
ElapsedAfterRefill(elapsed) == 0

\* variant: a grant takes its amount twice
DeductTwice(available, amount) == available - 2 * amount

\* available -= amount, lines 96-97
Deduct(available, amount) == available - amount

\* variant: the call leaves the recorded time as it was
NoteIgnored(since) == since

\* variant: a call made inside a running cooldown does not restart it
FirstNoteWins(since) == IF since < rate_limit_backoff_seconds THEN since ELSE 0

\* self.time_of_last_rate_limit_error = time.time(), line 107: the error is zero seconds old
NotedSince(since) == 0

\* variant: the cooldown is taken to end one tick early
CooldownOneShort(since) == since + 1 < rate_limit_backoff_seconds

\* line 87
InCooldown(since) == since < rate_limit_backoff_seconds

\* variant: a budget that matches the need exactly is not enough
HasBudgetToSpare(requests, tokens, cost) ==
    requests > 1 * MinuteTicks /\ tokens > cost * MinuteTicks

\* variant: only the request budget is checked
HasRequestBudget(requests, tokens, cost) == requests >= 1 * MinuteTicks

\* line 95
HasBudget(requests, tokens, cost) ==
    requests >= 1 * MinuteTicks /\ tokens >= cost * MinuteTicks

\* the budget refill_capacity would compute now
BankedRequests == Refilled(available_requests, max_requests_per_minute, since_update)
BankedTokens == Refilled(available_tokens, max_tokens_per_minute, since_update)

Init ==
    /\ available_requests = max_requests_per_minute * MinuteTicks
    /\ available_tokens = max_tokens_per_minute * MinuteTicks
    /\ since_update = 0
    /\ since_rate_limit = rate_limit_backoff_seconds
    /\ pc = [c \in Callers |-> "idle"]
    /\ tokens_needed = [c \in Callers |-> 0]
    /\ timer = [c \in Callers |-> 0]
    /\ issued_in_cooldown = [c \in Callers |-> FALSE]
    /\ cooldown_left = [c \in Callers |-> 0]
    /\ note_age = rate_limit_backoff_seconds
    /\ notes = 0
    /\ mark_age = NoMark
    /\ mark_requests = 0
    /\ mark_tokens = 0
    /\ granted_requests = 0
    /\ granted_tokens = 0
    /\ fetch_pc = "idle"
    /\ concurrency = FALSE
    /\ use_cache = FALSE
    /\ cache_found = "absent"
    /\ attempt = 0
    /\ backoff = 0
    /\ raw_pools = "empty"
    /\ result = "none"
    /\ raised = "none"
    /\ responses = <<>>
    /\ sleeps = <<>>
    /\ http_attempts = 0
    /\ note_calls = 0
    /\ acquire_calls = 0
    /\ acquire_errors = 0
    /\ cache_written = FALSE
    /\ assess_pc = "idle"
    /\ supplied = FALSE
    /\ moralis_key = FALSE
    /\ thresholds = DefaultThresholds
    /\ provider = [e \in Endpoints |-> "meets"]
    /\ check_pc = [k \in Checks |-> "idle"]
    /\ check_result = [k \in Checks |-> FALSE]
    /\ check_error = [k \in Checks |-> "none"]
    /\ check_notes = [k \in Checks |-> 0]
    /\ verdict = FALSE
    /\ assess_raised = "none"
    /\ risk_http = 0
    /\ false_while_pending = FALSE
    /\ AGGREGATOR_CFG = DefaultConfig
    /\ raw_list = <<>>
    /\ synergy_pools = <<>>
    /\ pipeline_pc = "import"
    /\ pipeline_raised = "none"
    /\ rank_calls = 0
    /\ fetch_cancelled = FALSE
    /\ cache_state = "absent"
    /\ cache_payload = 0
    /\ cache_fresh = FALSE
    /\ writer_pc = "idle"
    /\ writes = 0
    /\ reader_pc = [r \in Readers |-> "idle"]
    /\ observed = [r \in Readers |-> "none"]
    /\ observed_payload = [r \in Readers |-> 0]
    /\ hist_pc = "idle"
    /\ hist_attempt = 0
    /\ hist_backoff = 0
    /\ hist_answers = <<>>
    /\ hist_raised = "none"
    /\ hist_sleeps = <<>>
    /\ connected = FALSE
    /\ request_id = 0
    /\ callbacks = NoCallbacks
    /\ agent_calls = [c \in Calls |-> NotCalled]
    /\ inbound = {}

\* refill_capacity called on its own
RefillCapacity ==
    /\ since_update > 0
    /\ available_requests' = BankedRequests
    /\ available_tokens' = BankedTokens
    /\ since_update' = ElapsedAfterRefill(since_update)
    /\ UNCHANGED <<since_rate_limit, callers, note_age, notes, observer, fetch, risk, aside>>

\* one pass of the loop of acquire, from line 84 to the next await or return
AcquireIteration(c, cost) ==
    LET requests == BankedRequests
        tokens == BankedTokens
    IN  /\ since_update' = ElapsedAfterRefill(since_update)
        /\ UNCHANGED <<since_rate_limit, note_age, notes, mark_age, mark_requests, mark_tokens, fetch, risk, aside>>
        /\ IF InCooldown(since_rate_limit)
           THEN /\ available_requests' = requests
                /\ available_tokens' = tokens
                /\ pc' = [pc EXCEPT ![c] = "cooldown"]
                /\ timer' = [timer EXCEPT ![c] = rate_limit_backoff_seconds - since_rate_limit]
                /\ UNCHANGED <<granted_requests, granted_tokens>>
           ELSE IF HasBudget(requests, tokens, cost)
           THEN /\ available_requests' = Deduct(requests, 1 * MinuteTicks)
                /\ available_tokens' = Deduct(tokens, cost * MinuteTicks)
                /\ pc' = [pc EXCEPT ![c] = "granted"]
                /\ timer' = [timer EXCEPT ![c] = 0]
                /\ IF mark_age = NoMark
                   THEN UNCHANGED <<granted_requests, granted_tokens>>
                   ELSE /\ granted_requests' = granted_requests + 1
                        /\ granted_tokens' = granted_tokens + cost
           ELSE /\ available_requests' = requests
                /\ available_tokens' = tokens
                /\ pc' = [pc EXCEPT ![c] = "poll"]
                /\ timer' = [timer EXCEPT ![c] = PollInterval]
                /\ UNCHANGED <<granted_requests, granted_tokens>>

\* a task calls acquire(cost): the first pass runs in the calling step
Acquire(c, cost) ==
    /\ pc[c] = "idle"
    /\ tokens_needed' = [tokens_needed EXCEPT ![c] = cost]
    /\ issued_in_cooldown' = [issued_in_cooldown EXCEPT ![c] =
           note_age < rate_limit_backoff_seconds]
    /\ cooldown_left' = [cooldown_left EXCEPT ![c] = rate_limit_backoff_seconds - note_age]
    /\ AcquireIteration(c, cost)

\* the sleep of line 92 or line 100 is over: the loop runs again
Resume(c) ==
    /\ pc[c] \in {"cooldown", "poll"}
    /\ timer[c] = 0
    /\ UNCHANGED <<tokens_needed, issued_in_cooldown, cooldown_left>>
    /\ AcquireIteration(c, tokens_needed[c])

\* the caller goes on after acquire returned and is free to call again
Finish(c) ==
    /\ pc[c] = "granted"
    /\ pc' = [pc EXCEPT ![c] = "idle"]
    /\ issued_in_cooldown' = [issued_in_cooldown EXCEPT ![c] = FALSE]
    /\ cooldown_left' = [cooldown_left EXCEPT ![c] = 0]
    /\ tokens_needed' = [tokens_needed EXCEPT ![c] = 0]
    /\ UNCHANGED <<throttler, timer, note_age, notes, observer, fetch, risk, aside>>

\* note_rate_limit_error, line 107
NoteRateLimitError ==
    /\ since_rate_limit' = NotedSince(since_rate_limit)
    /\ note_age' = 0
    /\ UNCHANGED <<available_requests, available_tokens, since_update, callers, notes, observer, fetch, risk, aside>>

\* the clock advances by one tick
Tick ==
    /\ since_update' = Min(since_update + 1, MinuteTicks)
    /\ since_rate_limit' = Min(since_rate_limit + 1, rate_limit_backoff_seconds)
    /\ timer' = [c \in Callers |-> IF timer[c] > 0 THEN timer[c] - 1 ELSE 0]
    /\ note_age' = Min(note_age + 1, rate_limit_backoff_seconds)
    /\ cooldown_left' = [c \in Callers |->
                  IF pc[c] # "granted" /\ cooldown_left[c] > 0
                  THEN cooldown_left[c] - 1 ELSE cooldown_left[c]]
    /\ IF mark_age >= MinuteTicks
       THEN /\ mark_age' = NoMark
            /\ mark_requests' = 0
            /\ mark_tokens' = 0
            /\ granted_requests' = 0
            /\ granted_tokens' = 0
       ELSE /\ mark_age' = mark_age + 1
            /\ UNCHANGED <<mark_requests, mark_tokens, granted_requests, granted_tokens>>
    /\ UNCHANGED <<available_requests, available_tokens, pc, tokens_needed,
                   issued_in_cooldown, notes, fetch, risk, aside>>

\* the observer starts an interval at the present time
Mark ==
    /\ mark_age = NoMark
    /\ mark_age' = 0
    /\ mark_requests' = BankedRequests
    /\ mark_tokens' = BankedTokens
    /\ granted_requests' = 0
    /\ granted_tokens' = 0
    /\ UNCHANGED <<throttler, callers, note_age, notes, fetch, risk, aside>>

Next ==
    \/ RefillCapacity
    \/ \E c \in Callers, cost \in 0..MaxCost : Acquire(c, cost)
    \/ \E c \in Callers : Resume(c)
    \/ \E c \in Callers : Finish(c)
    \/ NoteRateLimitError
    \/ Tick

Spec == Init /\ [][Next]_vars

\* the throttler with callers that may ask for more tokens than
\* max_tokens_per_minute: the costs are one token, the whole budget and one
\* token more than the budget
OversizeCosts == {1, max_tokens_per_minute, max_tokens_per_minute + 1}

OversizeNext ==
    \/ RefillCapacity
    \/ \E c \in Callers, cost \in OversizeCosts : Acquire(c, cost)
    \/ \E c \in Callers : Resume(c)
    \/ \E c \in Callers : Finish(c)
    \/ NoteRateLimitError
    \/ Tick

OversizeSpec == Init /\ [][OversizeNext]_vars

\* the throttler with no rate-limit signal, watched over one interval at a time
WindowNext ==
    \/ RefillCapacity
    \/ \E c \in Callers, cost \in 0..MaxCost : Acquire(c, cost)
    \/ \E c \in Callers : Resume(c)
    \/ \E c \in Callers : Finish(c)
    \/ Tick
    \/ Mark

WindowSpec == Init /\ [][WindowNext]_vars

\* note_rate_limit_error, counted so that a behaviour has finitely many calls
CountedNoteRateLimitError ==
    /\ notes < MaxNotes
    /\ notes' = notes + 1
    /\ since_rate_limit' = NotedSince(since_rate_limit)
    /\ note_age' = 0
    /\ UNCHANGED <<available_requests, available_tokens, since_update, callers, observer, fetch, risk, aside>>

LiveNext ==
    \/ \E c \in Callers, cost \in 0..MaxCost : Acquire(c, cost)
    \/ \E c \in Callers : Resume(c)
    \/ \E c \in Callers : Finish(c)
    \/ CountedNoteRateLimitError
    \/ Tick

\* time advances, and the event loop runs every task whose sleep is over
Fairness ==
    /\ WF_vars(Tick)
    /\ \A c \in Callers : WF_vars(Resume(c))

LiveSpec == Init /\ [][LiveNext]_vars /\ Fairness

\* ------------------------------------------- fetch_defillama_pools_async
\* the parameters acquire can be called with by keyword, line 74
AcquireParameters == {"tokens_needed"}

\* the keyword of the call concurrency.acquire(num_tokens=50), line 126
FetchAcquireKeyword == "num_tokens"

\* Python binds the keyword arguments of a call before it runs the function:
\* a keyword that names no parameter raises TypeError at the call
Binds(keyword) == keyword \in AcquireParameters

\* what the provider can answer to one request
Failures == {"http_error", "network_error", "malformed"}
Outcomes == {"429", "pools", "empty_list"} \cup Failures

\* the exception a failed request raises inside the try block
ExceptionOf(outcome) ==
    CASE outcome = "http_error" -> "ClientResponseError"
      [] outcome = "network_error" -> "ClientError"
      [] outcome = "malformed" -> "ValueError"

ExceptionKinds == {"TypeError", "ClientResponseError", "ClientError", "ValueError"}

\* variant: the handler catches the errors of the HTTP client only
CaughtClientErrors(kind) == kind \in {"ClientResponseError", "ClientError"}

\* variant: the handler of line 172 catches BaseException
CaughtAll(kind) == TRUE

\* except Exception, line 172: every one of these kinds is an Exception;
\* asyncio.CancelledError is a BaseException and not one of them
Caught(kind) == kind \in ExceptionKinds

\* variant: the attempt counter is not advanced
AttemptKept(n) == n

\* attempt += 1, lines 142 and 185
AfterAttempt(n) == n + 1

\* MAX_FETCH_RETRIES = int(AGGREGATOR_CFG.get("maxFetchRetries", 3)), line 33
MAX_FETCH_RETRIES == AGGREGATOR_CFG.maxFetchRetries

\* while attempt <= MAX_FETCH_RETRIES, line 122
LoopContinues(n) == n <= MAX_FETCH_RETRIES

\* variant: the backoff doubles without a cap
BackoffUncapped(b) == b * 2

\* min(backoff * 2, 30), lines 141 and 184
NextBackoff(b) == Min(b * 2, BackoffCap)

\* what the call finds at cache_file, lines 98-104: no file, a file younger than
\* CACHE_MAX_AGE holding a JSON list, a file younger than CACHE_MAX_AGE that
\* cannot be parsed or holds another JSON value, a file of age CACHE_MAX_AGE
\* or more
CacheStates == {"absent", "fresh_list", "fresh_other", "stale"}

\* variant: the cache is read whether or not the caller asked for it
CacheHitUnasked(uc, found) == found = "fresh_list"

\* lines 98-110: the cache is used when asked for, present, fresh and a list
CacheHit(uc, found) == uc /\ found = "fresh_list"

\* the except block, lines 172-185, entered with an exception of this kind
Handle(kind) ==
    IF ~Caught(kind)
    THEN /\ fetch_pc' = "done"
         /\ raised' = kind
         /\ UNCHANGED <<attempt, sleeps>>
    ELSE IF attempt < MAX_FETCH_RETRIES
    THEN /\ fetch_pc' = "sleep_error"
         /\ sleeps' = Append(sleeps, backoff)
         /\ UNCHANGED <<attempt, raised>>
    ELSE /\ fetch_pc' = "loop"
         /\ attempt' = AfterAttempt(attempt)
         /\ UNCHANGED <<sleeps, raised>>

\* the call, lines 95-119: the cache check and the start of the retry loop
FetchCall(conc, uc, found) ==
    /\ fetch_pc = "idle"
    /\ concurrency' = conc
    /\ use_cache' = uc
    /\ cache_found' = found
    /\ IF CacheHit(uc, found)
       THEN /\ fetch_pc' = "done"
            /\ result' = "cached"
            /\ UNCHANGED <<attempt, backoff>>
       ELSE /\ fetch_pc' = "loop"
            /\ attempt' = 1
            /\ backoff' = FirstBackoff
            /\ UNCHANGED result
    /\ UNCHANGED <<throttler, callers, note_age, notes, observer, risk, aside, raw_pools, raised,
                   responses, sleeps, http_attempts, note_calls, acquire_calls,
                   acquire_errors, cache_written>>

\* one attempt, lines 122-131, up to the request being sent; at "acquire" the
\* fetch is inside acquire and runs one more pass of its loop
FetchAttempt ==
    /\ fetch_pc \in {"loop", "acquire"}
    /\ LoopContinues(attempt)
    /\ UNCHANGED <<callers, note_age, notes, observer, risk, aside, since_rate_limit, concurrency,
                   use_cache, cache_found, backoff, raw_pools, result, responses,
                   note_calls, cache_written>>
    /\ IF ~concurrency
       THEN /\ fetch_pc' = "http"
            /\ http_attempts' = http_attempts + 1
            /\ UNCHANGED <<available_requests, available_tokens, since_update, attempt,
                           raised, sleeps, acquire_calls, acquire_errors>>
       ELSE IF fetch_pc = "loop" /\ ~Binds(FetchAcquireKeyword)
       THEN /\ acquire_calls' = acquire_calls + 1
            /\ acquire_errors' = acquire_errors + 1
            /\ Handle("TypeError")
            /\ UNCHANGED <<available_requests, available_tokens, since_update,
                           http_attempts>>
       ELSE /\ acquire_calls' = IF fetch_pc = "loop" THEN acquire_calls + 1 ELSE acquire_calls
            /\ since_update' = ElapsedAfterRefill(since_update)
            /\ UNCHANGED <<attempt, raised, sleeps, acquire_errors>>
            /\ IF ~InCooldown(since_rate_limit)
                  /\ HasBudget(BankedRequests, BankedTokens, FetchTokens)
               THEN /\ available_requests' = Deduct(BankedRequests, 1 * MinuteTicks)
                    /\ available_tokens' = Deduct(BankedTokens, FetchTokens * MinuteTicks)
                    /\ fetch_pc' = "http"
                    /\ http_attempts' = http_attempts + 1
               ELSE /\ available_requests' = BankedRequests
                    /\ available_tokens' = BankedTokens
                    /\ fetch_pc' = "acquire"
                    /\ UNCHANGED http_attempts

\* the answer to the request arrives, lines 131-170
FetchResponse(outcome) ==
    /\ fetch_pc = "http"
    /\ responses' = Append(responses, outcome)
    /\ UNCHANGED <<available_requests, available_tokens, since_update, callers, notes,
                   observer, risk, aside, concurrency, use_cache, cache_found, backoff, http_attempts,
                   acquire_calls, acquire_errors>>
    /\ IF outcome = "429"
       THEN /\ IF concurrency
               THEN /\ since_rate_limit' = NotedSince(since_rate_limit)
                    /\ note_age' = 0
                    /\ note_calls' = note_calls + 1
               ELSE UNCHANGED <<since_rate_limit, note_age, note_calls>>
            /\ fetch_pc' = "sleep_429"
            /\ sleeps' = Append(sleeps, backoff)
            /\ UNCHANGED <<attempt, raw_pools, result, raised, cache_written>>
       ELSE IF outcome \in Failures
       THEN /\ Handle(ExceptionOf(outcome))
            /\ UNCHANGED <<since_rate_limit, note_age, note_calls, raw_pools, result,
                           cache_written>>
       ELSE /\ raw_pools' = IF outcome = "pools" THEN "pools" ELSE "empty"
            /\ cache_written' = TRUE
            /\ result' = raw_pools'
            /\ fetch_pc' = "done"
            /\ UNCHANGED <<since_rate_limit, note_age, note_calls, attempt, raised, sleeps>>

\* the sleep of line 139 is over, lines 140-143
FetchWake429 ==
    /\ fetch_pc = "sleep_429"
    /\ backoff' = IF attempt < MAX_FETCH_RETRIES THEN NextBackoff(backoff) ELSE backoff
    /\ attempt' = AfterAttempt(attempt)
    /\ fetch_pc' = "loop"
    /\ UNCHANGED <<throttler, callers, note_age, notes, observer, risk, aside, concurrency, use_cache,
                   cache_found, raw_pools, result, raised, responses, sleeps,
                   http_attempts, note_calls, acquire_calls, acquire_errors, cache_written>>

\* the sleep of line 183 is over, lines 184-185
FetchWakeError ==
    /\ fetch_pc = "sleep_error"
    /\ backoff' = NextBackoff(backoff)
    /\ attempt' = AfterAttempt(attempt)
    /\ fetch_pc' = "loop"
    /\ UNCHANGED <<throttler, callers, note_age, notes, observer, risk, aside, concurrency, use_cache,
                   cache_found, raw_pools, result, raised, responses, sleeps,
                   http_attempts, note_calls, acquire_calls, acquire_errors, cache_written>>

\* the loop is left, lines 187-188
FetchReturn ==
    /\ fetch_pc = "loop"
    /\ ~LoopContinues(attempt)
    /\ fetch_pc' = "done"
    /\ result' = raw_pools
    /\ UNCHANGED <<throttler, callers, note_age, notes, observer, risk, aside, concurrency, use_cache,
                   cache_found, attempt, backoff, raw_pools, raised, responses, sleeps,
                   http_attempts, note_calls, acquire_calls, acquire_errors, cache_written>>

FetchNext ==
    \/ \E conc \in BOOLEAN, uc \in BOOLEAN, found \in CacheStates : FetchCall(conc, uc, found)
    \/ FetchAttempt
    \/ \E outcome \in Outcomes : FetchResponse(outcome)
    \/ FetchWake429
    \/ FetchWakeError
    \/ FetchReturn

FetchSpec == Init /\ [][FetchNext]_vars

\* every request is answered or times out, and every sleep ends
FetchFairness == WF_vars(FetchNext)

FetchLiveSpec == Init /\ [][FetchNext]_vars /\ FetchFairness

\* ---------------------------------------------------- RiskAgent.assess_token
\* the keyword of the calls concurrency.acquire(num_tokens=...), lines 98, 138
\* and 184
RiskAcquireKeyword == "num_tokens"

\* the weight a sub-check asks the throttler for
CheckTokens(k) == IF k = "holders" THEN HolderTokens ELSE PairTokens

\* the place of a sub-check among the arguments of asyncio.gather
Position(k) == CHOOSE i \in 1..Len(CheckOrder) : CheckOrder[i] = k

\* the methods defined in the body of class RiskAgent, lines 41-258;
\* _fetch_top_10_percent is defined at module level (line 260), outside it
RiskAgentMethods ==
    {"assess_token", "_check_liquidity", "_check_volume", "_check_holder_distribution",
     "_fetch_holders_count_etherscan"}

\* self.<name> finds a method; if not, the attribute access raises AttributeError
HasMethod(name) == name \in RiskAgentMethods

\* what a provider can answer: 429, no answer or a non-2xx status, a 2xx body
\* that cannot be read as expected, a 2xx body without the data asked for,
\* a 2xx body with data that meets a positive threshold
Answers == {"429", "down", "malformed", "missing", "meets"}

\* the exception an answer raises in the sub-check that reads it
ErrorOf(answer) ==
    CASE answer = "down" -> "ClientError"
      [] answer = "malformed" -> "ValueError"
      [] OTHER -> "none"

\* the number read from a 2xx answer: the defaults of the code (0.0, "0", 0)
\* where the data is missing
Level(answer) == IF answer = "meets" THEN 1 ELSE 0

RiskExceptionKinds == {"TypeError", "AttributeError", "ClientError", "ValueError"}

\* variant: a sub-check catches the errors of the HTTP client only
RiskCaughtClientErrors(kind) == kind = "ClientError"

\* except Exception of a sub-check, lines 123, 163 and 216
RiskCaught(kind) == kind \in RiskExceptionKinds

\* except Exception of assess_token, line 83
AssessCaught(kind) == kind \in RiskExceptionKinds

\* variant: a sub-check that caught an error reports success
FailOpen(kind) == TRUE

\* return False in the except block of a sub-check, lines 125, 165 and 218
ErrorVerdict(kind) == FALSE

\* variant: the test of line 77 is inverted
InvertedAll(results) == ~(\A k \in Checks : results[k])

\* all(results), line 77
AllOf(results) == \A k \in Checks : results[k]

\* variant: the caller goes on as soon as one sub-check has ended
FirstCompleted(pcs) == \E k \in Checks : pcs[k] \in {"done", "raised"}

\* await asyncio.gather(...), line 71: the caller goes on when every sub-check
\* has returned, or when one has raised
GatherComplete(pcs) ==
    \/ \A k \in Checks : pcs[k] = "done"
    \/ \E k \in Checks : pcs[k] = "raised"

Ended(k) == check_pc[k] \in {"done", "raised"}

\* _fetch_holders_count_etherscan, lines 232-258: 0 without a key, on 429 and
\* on every error
HoldersCount == IF moralis_key THEN Level(provider["holders"]) ELSE 0

\* _fetch_top_10_percent, lines 270-326: the fallback without a key, on 429,
\* on every error and on an empty holder list
TopTenPercent ==
    IF moralis_key /\ provider["holders"] = "meets" THEN 0 ELSE TopTenFallback

\* _check_liquidity and _check_volume from the answer on, lines 102-121 and
\* 142-161: what the sub-check returns, the error raised in it, its
\* note_rate_limit_error calls
PairOutcome(k) ==
    LET a == provider[k]
        minimum == IF k = "liquidity" THEN thresholds.MIN_LIQUIDITY_USD
                   ELSE thresholds.MIN_VOLUME_24H_USD
    IN  IF a = "429" THEN [result |-> FALSE, error |-> "none", notes |-> 1]
        ELSE IF ErrorOf(a) # "none"
        THEN [result |-> ErrorVerdict(ErrorOf(a)), error |-> ErrorOf(a), notes |-> 0]
        ELSE [result |-> Level(a) >= minimum, error |-> "none", notes |-> 0]

\* _check_holder_distribution from the answer of Etherscan on, lines 189-214,
\* with the two Moralis requests it awaits taken in the same step
HolderOutcome ==
    LET a == provider["supply"]
        n == IF moralis_key /\ provider["holders"] = "429" THEN 1 ELSE 0
    IN  IF a = "429" THEN [result |-> FALSE, error |-> "none", notes |-> 1]
        ELSE IF ErrorOf(a) # "none"
        THEN [result |-> ErrorVerdict(ErrorOf(a)), error |-> ErrorOf(a), notes |-> 0]
        ELSE IF Level(a) <= 0 THEN [result |-> FALSE, error |-> "none", notes |-> 0]
        ELSE IF HoldersCount < thresholds.MIN_UNIQUE_HOLDERS
        THEN [result |-> FALSE, error |-> "none", notes |-> n]
        ELSE IF ~HasMethod("_fetch_top_10_percent")
        THEN [result |-> ErrorVerdict("AttributeError"), error |-> "AttributeError",
              notes |-> n]
        ELSE [result |-> TopTenPercent <= thresholds.MAX_TOP_HOLDERS_PERCENT,
              error |-> "none", notes |-> 2 * n]

Outcome(k) == IF k = "holders" THEN HolderOutcome ELSE PairOutcome(k)

\* sub-check k ends: it returns the result, or the error leaves it uncaught
EndCheck(k, out) ==
    /\ check_error' = [check_error EXCEPT ![k] = out.error]
    /\ check_notes' = [check_notes EXCEPT ![k] = @ + out.notes]
    /\ IF out.error # "none" /\ ~RiskCaught(out.error)
       THEN /\ check_pc' = [check_pc EXCEPT ![k] = "raised"]
            /\ UNCHANGED <<check_result, false_while_pending>>
       ELSE /\ check_pc' = [check_pc EXCEPT ![k] = "done"]
            /\ check_result' = [check_result EXCEPT ![k] = out.result]
            /\ false_while_pending' =
                   (false_while_pending
                      \/ (~out.result /\ \E j \in Checks \ {k} : ~Ended(j)))

\* assess_token is called, lines 59-75: the throttler is taken or created, and
\* gather makes one task of each sub-check.  A throttler created at lines
\* 63-67 starts as Init has it (full budgets, no cooldown), which is also
\* the state of the given one here, so one set of throttler variables
\* stands for both.
AssessCall(sup, key, th, prov) ==
    /\ assess_pc = "idle"
    /\ assess_pc' = "gather"
    /\ supplied' = sup
    /\ moralis_key' = key
    /\ thresholds' = th
    /\ provider' = prov
    /\ check_pc' = [k \in Checks |-> "new"]
    /\ UNCHANGED <<throttler, callers, note_age, notes, observer, fetch, aside, check_result,
                   check_error, check_notes, verdict, assess_raised, risk_http,
                   false_while_pending>>

\* the task of sub-check k runs up to its next await or to its end; the event
\* loop starts the tasks in the order gather made them
RunCheck(k) ==
    /\ assess_pc \in {"gather", "done"}
    /\ check_pc[k] \in {"new", "acquire", "http"}
    /\ check_pc[k] = "new" => \A j \in Checks : Position(j) < Position(k) => check_pc[j] # "new"
    /\ UNCHANGED <<callers, notes, observer, fetch, aside, assess_pc, supplied, moralis_key,
                   thresholds, provider, verdict, assess_raised>>
    /\ IF check_pc[k] = "new" /\ ~Binds(RiskAcquireKeyword)
       THEN /\ EndCheck(k, [result |-> ErrorVerdict("TypeError"), error |-> "TypeError",
                            notes |-> 0])
            /\ UNCHANGED <<throttler, note_age, risk_http>>
       ELSE IF check_pc[k] \in {"new", "acquire"}
       THEN /\ since_update' = ElapsedAfterRefill(since_update)
            /\ UNCHANGED <<since_rate_limit, note_age, check_result, check_error,
                           check_notes, false_while_pending>>
            /\ IF ~InCooldown(since_rate_limit)
                  /\ HasBudget(BankedRequests, BankedTokens, CheckTokens(k))
               THEN /\ available_requests' = Deduct(BankedRequests, 1 * MinuteTicks)
                    /\ available_tokens' = Deduct(BankedTokens, CheckTokens(k) * MinuteTicks)
                    /\ check_pc' = [check_pc EXCEPT ![k] = "http"]
                    /\ risk_http' = risk_http + 1
               ELSE /\ available_requests' = BankedRequests
                    /\ available_tokens' = BankedTokens
                    /\ check_pc' = [check_pc EXCEPT ![k] = "acquire"]
                    /\ UNCHANGED risk_http
       ELSE /\ EndCheck(k, Outcome(k))
            /\ IF Outcome(k).notes > 0
               THEN /\ since_rate_limit' = NotedSince(since_rate_limit)
                    /\ note_age' = 0
               ELSE UNCHANGED <<since_rate_limit, note_age>>
            /\ UNCHANGED <<available_requests, available_tokens, since_update, risk_http>>

\* gather has its result: assess_token combines the results, or catches the
\* exception gather passes on, lines 76-85
AssessReturn ==
    /\ assess_pc = "gather"
    /\ GatherComplete(check_pc)
    /\ assess_pc' = "done"
    /\ IF \E k \in Checks : check_pc[k] = "raised"
       THEN LET k == CHOOSE j \in Checks : check_pc[j] = "raised"
            IN  IF AssessCaught(check_error[k])
                THEN /\ verdict' = FALSE
                     /\ UNCHANGED assess_raised
                ELSE /\ assess_raised' = check_error[k]
                     /\ UNCHANGED verdict
       ELSE /\ verdict' = AllOf(check_result)
            /\ UNCHANGED assess_raised
    /\ UNCHANGED <<throttler, callers, note_age, notes, observer, fetch, aside, supplied,
                   moralis_key, thresholds, provider, check_pc, check_result,
                   check_error, check_notes, risk_http, false_while_pending>>

RiskNext ==
    \/ /\ assess_pc = "idle"
       /\ \E sup \in BOOLEAN, key \in BOOLEAN, th \in ThresholdConfigs,
             prov \in [Endpoints -> Answers] : AssessCall(sup, key, th, prov)
    \/ \E k \in Checks : RunCheck(k)
    \/ AssessReturn

RiskSpec == Init /\ [][RiskNext]_vars

\* ------------------------------------------- parse, augment, prune and rank
\* Numbers of the pipeline are fixed-point: apy, volatility, chain_factor,
\* apy_vol_ratio, score, the weights and the penalties are in thousandths,
\* tvl is in whole dollars.

\* d.get(key, default) of a dict
Get(d, key, default) == IF key \in DOMAIN d THEN d[key] ELSE default

\* d[key] = value of a dict
Put(d, key, value) ==
    [k \in DOMAIN d \cup {key} |-> IF k = key THEN value ELSE d[k]]

\* a * b of two fixed-point numbers
Times(a, b) == (a * b) \div 1000

\* a / b of two fixed-point numbers, b # 0
Quotient(a, b) == (a * 1000) \div b

\* str.lower() on the strings the model draws
Lower(s) ==
    CASE s = "ETH" -> "eth"
      [] s = "Ethereum" -> "ethereum"
      [] s = "ETHEREUM" -> "ethereum"
      [] s = "Arbitrum" -> "arbitrum"
      [] s = "stETH" -> "steth"
      [] s = "USDC" -> "usdc"
      [] OTHER -> s

\* f"defi-{i}", line 277
DefaultId(i) == "defi-" \o ToString(i)

\* the pool ids of the model in the order of Python's string comparison
IdsAscending == <<"a">> \o [i \in 1..(MaxPools + 1) |-> DefaultId(i - 1)]

IdRank(id) == CHOOSE i \in 1..Len(IdsAscending) : IdsAscending[i] = id

\* raw DeFiLlama objects: the keys "pool" and "chain" may be missing
RawObjects(pools, chains, symbols, apys, tvls) ==
    LET full == [pool : pools, chain : chains, symbol : symbols, apy : apys, tvlUsd : tvls]
        Without(d, keys) == [k \in DOMAIN d \ keys |-> d[k]]
    IN  full \cup {Without(d, {"pool"}) : d \in full}
             \cup {Without(d, {"chain"}) : d \in full}

\* one object with every field varied
RichObjects ==
    RawObjects({"a", "defi-1"}, {"ETH", "eth", "Ethereum", "ETHEREUM", "Arbitrum"},
               {"stETH", "USDC"},
               {0, 1000, 10000}, {0, 1000000, 2000000})

\* the objects of the lists: ids, chains, apy and tvl varied
LeanObjects ==
    RawObjects({"a", "defi-1"}, {"Arbitrum"}, {"USDC"}, {1000, 10000}, {1000000, 2000000})

\* lists of up to MaxPools objects
RawLists == UNION {[1..n -> LeanObjects] : n \in 0..MaxPools}

\* FALLBACK_VOL, line 32
FALLBACK_VOL == AGGREGATOR_CFG.fallbackVol

\* is_lsd_symbol, lines 62-69
LSD_TOKENS == {"steth", "reth", "stmatic", "seth2", "ankr"}

is_lsd_symbol(symbol) == Lower(symbol) \in LSD_TOKENS

\* CHAIN_RISK_MAP of bridging_data.py: a chain the map does not have gets 1.0
CHAIN_RISK_MAP == [chain \in {"arbitrum"} |-> 1300]

get_chain_risk_factor(chain) == Get(CHAIN_RISK_MAP, Lower(chain), 1000)

\* variant: the alias is kept as the provider spells it
AliasKept(lowered) == lowered

\* if chain == "eth": chain = "ethereum", lines 279-280
Canonical(lowered) == IF lowered = "eth" THEN "ethereum" ELSE lowered

\* parse_defillama_data, lines 267-291
parse_defillama_data(raw) ==
    [n \in 1..Len(raw) |->
        LET d == raw[n]
            i == n - 1
            lowered == Lower(Get(d, "chain", "ethereum"))
        IN  [pool_id |-> Get(d, "pool", DefaultId(i)),
             chain |-> Canonical(lowered),
             symbol |-> Lower(d.symbol),
             apy |-> d.apy,
             tvl |-> d.tvlUsd,
             volatility |-> FALLBACK_VOL,
             is_lsd |-> FALSE]]

\* variant: the test of line 320 lets a volatility of zero through
NotNegative(vol) == vol * 1000000 >= 0

\* vol_val > 1e-9, line 320, with both sides in units of 1e-9
AboveEpsilon(vol) == vol * 1000000 > RatioEpsilon

\* apy_val / vol_val raises ZeroDivisionError
DivisionRaises(pool) == AboveEpsilon(pool.volatility) /\ pool.volatility = 0

\* augment_pool_features, lines 294-321, where the division does not raise
augment_pool_features(pool) ==
    LET chain_str == pool.chain
        cf == get_chain_risk_factor(chain_str)
        ratio == IF AboveEpsilon(pool.volatility)
                 THEN Quotient(pool.apy, pool.volatility) ELSE RatioSentinel
    IN  [pool_id |-> pool.pool_id,
         chain |-> pool.chain,
         symbol |-> pool.symbol,
         apy |-> pool.apy,
         tvl |-> pool.tvl,
         volatility |-> pool.volatility,
         is_lsd |-> IF is_lsd_symbol(pool.symbol) THEN TRUE ELSE pool.is_lsd,
         bridging_needed |-> chain_str # "ethereum",
         chain_factor |-> IF cf = 0 THEN 1000 ELSE cf,
         apy_vol_ratio |-> ratio]

\* variant: a pool whose value equals a threshold is discarded
PruneStrict(cfg, pool) ==
    IF pool.apy <= cfg.minApy THEN FALSE
    ELSE IF pool.tvl <= cfg.minTvl THEN FALSE
    ELSE IF pool.chain_factor >= cfg.maxChainFactor THEN FALSE
    ELSE TRUE

\* variant: the test of the chain factor is the wrong way round
PruneChainInverted(cfg, pool) ==
    IF pool.apy < cfg.minApy THEN FALSE
    ELSE IF pool.tvl < cfg.minTvl THEN FALSE
    ELSE IF pool.chain_factor < cfg.maxChainFactor THEN FALSE
    ELSE TRUE

\* prune_pool, lines 324-342, under the configuration cfg
PruneUnder(cfg, pool) ==
    IF pool.apy < cfg.minApy THEN FALSE
    ELSE IF pool.tvl < cfg.minTvl THEN FALSE
    ELSE IF pool.chain_factor > cfg.maxChainFactor THEN FALSE
    ELSE TRUE

prune_pool(pool) == PruneUnder(AGGREGATOR_CFG, pool)

\* number of decimal digits of x after the first
RECURSIVE Magnitude(_)
Magnitude(x) == IF x < 10 THEN 0 ELSE 1 + Magnitude(x \div 10)

\* first decimal digit of x
RECURSIVE Leading(_)
Leading(x) == IF x < 10 THEN x ELSE Leading(x \div 10)

\* 1000 * log10(d), rounded down, of the digits d = 1..9
MantissaLog == <<0, 301, 477, 602, 698, 778, 845, 903, 954>>

\* variant: the natural logarithm, 2.303 times the decimal one
NaturalLog(x) == (2303 * (1000 * Magnitude(x) + MantissaLog[Leading(x)])) \div 1000

\* math.log10(x), line 376, in thousandths and rounded down; exact for the
\* x >= 1 with one significant digit, which are the x the models draw
Log10(x) == 1000 * Magnitude(x) + MantissaLog[Leading(x)]

\* max(1.0, tvl), line 376
Max(a, b) == IF a >= b THEN a ELSE b

\* variant: the LSD penalty does not wait for the bridging flag
PenaltyLsdAlone(pool) ==
    (IF Get(pool, "bridging_needed", FALSE) THEN AGGREGATOR_CFG.bridgingPenalty ELSE 0)
    + (IF Get(pool, "is_lsd", FALSE) THEN AGGREGATOR_CFG.lsdBridgingMultiplierPenalty ELSE 0)

\* the penalty of final_score_formula, lines 369-373
Penalty(pool) ==
    LET bridging_needed == Get(pool, "bridging_needed", FALSE)
        is_lsd == Get(pool, "is_lsd", FALSE)
    IN  (IF bridging_needed THEN AGGREGATOR_CFG.bridgingPenalty ELSE 0)
        + (IF bridging_needed /\ is_lsd
           THEN AGGREGATOR_CFG.lsdBridgingMultiplierPenalty ELSE 0)

\* final_score_formula, lines 345-379
final_score_formula(pool) ==
    LET chain_factor == Get(pool, "chain_factor", 1000)
        apy == Get(pool, "apy", 0)
        vol == Get(pool, "volatility", FALLBACK_VOL)
        tvl == Get(pool, "tvl", 0)
        ratio == Get(pool, "apy_vol_ratio", 1000)
        cf_term == Times(beta, chain_factor - 1000)
        tvl_term == Times(gamma, Log10(Max(1, tvl)))
    IN  apy - Times(alpha, vol) - cf_term + tvl_term + Times(delta, ratio) - Penalty(pool)

Last(s) == s[Len(s)]

Front(s) == SubSeq(s, 1, Len(s) - 1)

\* where list.sort puts x among the already sorted elements before it: after
\* every element whose score is not lower
RECURSIVE InsertDescending(_, _)
InsertDescending(sorted, x) ==
    IF sorted = <<>> THEN <<x>>
    ELSE IF Last(sorted).score >= x.score THEN Append(sorted, x)
    ELSE Append(InsertDescending(Front(sorted), x), Last(sorted))

\* variant: descending order made by reversing an ascending sort, which turns
\* the order of equal scores round
RECURSIVE ReversedAscending(_)
ReversedAscending(pools) ==
    IF pools = <<>> THEN <<>>
    ELSE InsertDescending(ReversedAscending(Tail(pools)), Head(pools))

\* pools.sort(key=lambda x: x["score"], reverse=True), line 391: list.sort is
\* stable, pools of equal score keep the order they had
RECURSIVE SortedDescending(_)
SortedDescending(pools) ==
    IF pools = <<>> THEN <<>>
    ELSE InsertDescending(SortedDescending(Front(pools)), Last(pools))

\* rank_pools, lines 382-391
rank_pools(pools) ==
    SortedDescending([i \in 1..Len(pools) |->
                         Put(pools[i], "score", final_score_formula(pools[i]))])

\* AGGREGATOR_CFG = load_aggregator_hpc_config(...), line 26, when the module
\* is imported
LoadConfig(cfg) ==
    /\ pipeline_pc = "import"
    /\ pipeline_pc' = "loaded"
    /\ AGGREGATOR_CFG' = cfg
    /\ UNCHANGED <<not_pipeline, raw_list, synergy_pools, pipeline_raised, rank_calls>>

\* parse_defillama_data(raw)
ParseDefillamaData(raw) ==
    /\ pipeline_pc = "loaded"
    /\ pipeline_pc' = "parsed"
    /\ raw_list' = raw
    /\ synergy_pools' = parse_defillama_data(raw)
    /\ UNCHANGED <<not_pipeline, AGGREGATOR_CFG, pipeline_raised, rank_calls>>

\* augment_pool_features(p) for every pool of the list
AugmentPoolFeatures ==
    /\ pipeline_pc = "parsed"
    /\ IF \E i \in 1..Len(synergy_pools) : DivisionRaises(synergy_pools[i])
       THEN /\ pipeline_pc' = "raised"
            /\ pipeline_raised' = "ZeroDivisionError"
            /\ UNCHANGED synergy_pools
       ELSE /\ pipeline_pc' = "augmented"
            /\ synergy_pools' = [i \in 1..Len(synergy_pools) |->
                                    augment_pool_features(synergy_pools[i])]
            /\ UNCHANGED pipeline_raised
    /\ UNCHANGED <<not_pipeline, AGGREGATOR_CFG, raw_list, rank_calls>>

\* the filter: the pools prune_pool keeps
PrunePools ==
    /\ pipeline_pc = "augmented"
    /\ pipeline_pc' = "pruned"
    /\ synergy_pools' = SelectSeq(synergy_pools, prune_pool)
    /\ UNCHANGED <<not_pipeline, AGGREGATOR_CFG, raw_list, pipeline_raised, rank_calls>>

\* rank_pools(pools), on a list that was augmented, pruned or ranked before
RankPools ==
    /\ pipeline_pc \in {"augmented", "pruned", "ranked"}
    /\ rank_calls < MaxRankCalls
    /\ pipeline_pc' = "ranked"
    /\ rank_calls' = rank_calls + 1
    /\ synergy_pools' = rank_pools(synergy_pools)
    /\ UNCHANGED <<not_pipeline, AGGREGATOR_CFG, raw_list, pipeline_raised>>

\* the pipeline on one raw object, every field and every configuration key varied
PoolNext ==
    \/ /\ pipeline_pc = "import"
       /\ \E cfg \in AggregatorConfigs : LoadConfig(cfg)
    \/ /\ pipeline_pc = "loaded"
       /\ \E d \in RichObjects : ParseDefillamaData(<<d>>)
    \/ AugmentPoolFeatures
    \/ PrunePools
    \/ RankPools

PoolSpec == Init /\ [][PoolNext]_vars

\* the pipeline on lists of up to MaxPools raw objects
PipelineNext ==
    \/ /\ pipeline_pc = "import"
       /\ \E cfg \in LeanConfigs : LoadConfig(cfg)
    \/ /\ pipeline_pc = "loaded"
       /\ \E raw \in RawLists : ParseDefillamaData(raw)
    \/ AugmentPoolFeatures
    \/ PrunePools
    \/ RankPools

PipelineSpec == Init /\ [][PipelineNext]_vars

\* --------------------------------------------------- cancellation of a fetch
\* the task that awaits fetch_defillama_pools_async is cancelled: asyncio
\* raises CancelledError at the await the call is suspended at, which is the
\* sleep of acquire (concurrency_throttler.py lines 92 and 100), the request
\* and the body (lines 128-146), the sleep of line 139, all inside the try
\* block, or the sleep of line 183, inside the except block
FetchCancel ==
    /\ fetch_pc \in {"acquire", "http", "sleep_429", "sleep_error"}
    /\ ~fetch_cancelled
    /\ fetch_cancelled' = TRUE
    /\ IF fetch_pc = "sleep_error"
       THEN /\ fetch_pc' = "done"
            /\ raised' = "CancelledError"
            /\ UNCHANGED <<attempt, sleeps>>
       ELSE Handle("CancelledError")
    /\ UNCHANGED <<throttler, callers, note_age, notes, observer, risk, pipeline, cachefile,
                   history, agent, concurrency, use_cache, cache_found, backoff, raw_pools, result,
                   responses, http_attempts, note_calls, acquire_calls, acquire_errors,
                   cache_written>>

CancelNext ==
    \/ FetchNext
    \/ FetchCancel

CancelSpec == Init /\ [][CancelNext]_vars

\* ----------------------------------------- the fetch under every retry ceiling
\* the module is imported with a configuration file that sets maxFetchRetries,
\* lines 26 and 33, and fetch_defillama_pools_async is called once
BackoffNext ==
    \/ /\ pipeline_pc = "import"
       /\ fetch_pc = "idle"
       /\ \E cfg \in RetryConfigs : LoadConfig(cfg)
    \/ FetchNext

BackoffSpec == Init /\ [][BackoffNext]_vars

\* ---------------------------------------------------- the pool cache file
\* The file at cache_file as the processes that call
\* fetch_defillama_pools_async find it.  One call at a time writes it, lines
\* 157-159; calls of other processes read it, lines 98-115.
\* open(cache_file, "w"), line 158: the file is made or cut to length 0, and
\* its modification time is now
CacheOpen ==
    /\ writer_pc = "idle"
    /\ writes < MaxWrites
    /\ writer_pc' = "open"
    /\ writes' = writes + 1
    /\ cache_state' = "empty"
    /\ cache_payload' = writes + 1
    /\ cache_fresh' = TRUE
    /\ UNCHANGED <<not_cachefile, reader_pc, observed, observed_payload>>

\* json.dump(raw_pools, cf, indent=2), line 159: the buffer of cf is full and
\* is written out before the text is complete
CacheFlush ==
    /\ writer_pc = "open"
    /\ writer_pc' = "flushed"
    /\ cache_state' = "partial"
    /\ UNCHANGED <<not_cachefile, writes, cache_payload, cache_fresh, reader_pc, observed,
                   observed_payload>>

\* the with block of line 158 ends: the rest of the text is written out
CacheClose ==
    /\ writer_pc \in {"open", "flushed"}
    /\ writer_pc' = "idle"
    /\ cache_state' = "complete"
    /\ UNCHANGED <<not_cachefile, writes, cache_payload, cache_fresh, reader_pc, observed,
                   observed_payload>>

\* CACHE_MAX_AGE seconds have passed since the file was written
CacheExpire ==
    /\ writer_pc = "idle"
    /\ cache_state # "absent"
    /\ cache_fresh
    /\ cache_fresh' = FALSE
    /\ UNCHANGED <<not_cachefile, writer_pc, writes, cache_state, cache_payload, reader_pc,
                   observed, observed_payload>>

\* lines 98-100 of a call with use_cache: the file exists and is younger than
\* CACHE_MAX_AGE, or the call goes on to the provider
CacheCheck(r) ==
    /\ reader_pc[r] = "idle"
    /\ reader_pc' = [reader_pc EXCEPT ![r] =
                        IF cache_state # "absent" /\ cache_fresh THEN "open" ELSE "miss"]
    /\ UNCHANGED <<not_cachefile, writer_pc, writes, cache_state, cache_payload, cache_fresh,
                   observed, observed_payload>>

\* lines 102-115: the file is read; a complete text is returned, an empty or
\* a cut text makes json.load raise and the call goes on to the provider
CacheLoad(r) ==
    /\ reader_pc[r] = "open"
    /\ observed' = [observed EXCEPT ![r] = cache_state]
    /\ observed_payload' = [observed_payload EXCEPT ![r] = cache_payload]
    /\ reader_pc' = [reader_pc EXCEPT ![r] = IF cache_state = "complete" THEN "hit" ELSE "miss"]
    /\ UNCHANGED <<not_cachefile, writer_pc, writes, cache_state, cache_payload, cache_fresh>>

CacheNext ==
    \/ CacheOpen
    \/ CacheFlush
    \/ CacheClose
    \/ CacheExpire
    \/ \E r \in Readers : CacheCheck(r)
    \/ \E r \in Readers : CacheLoad(r)

CacheSpec == Init /\ [][CacheNext]_vars

\* ----------------------------------------------- HeavyAgent.send_request
\* One HeavyAgent (src/heavy-agentkit-bridge/src/elizaos/elizaos_agent.py), the
\* task of _receive_messages that connect starts, and up to MaxRequests calls
\* of send_request from concurrent tasks.
\* request_id = str(self.request_id), line 212
RequestIds == {ToString(n) : n \in 1..MaxRequests}

\* del d[key], d.pop(key)
Without(d, key) == [k \in DOMAIN d \ {key} |-> d[k]]

\* connect up to the task of the receiver being made, lines 71-75
Connect ==
    /\ ~connected
    /\ request_id = 0
    /\ connected' = TRUE
    /\ UNCHANGED <<not_agent, request_id, callbacks, agent_calls, inbound>>

\* send_request up to its first await, lines 207-232: RuntimeError without a
\* connection; otherwise the next request id is taken, the callback is
\* registered under it and the request is handed to the websocket
SendRequest(c) ==
    /\ agent_calls[c].pc = "idle"
    /\ IF ~connected
       THEN /\ agent_calls' = [agent_calls EXCEPT ![c].pc = "raised"]
            /\ UNCHANGED <<request_id, callbacks>>
       ELSE /\ request_id' = request_id + 1
            /\ callbacks' = Put(callbacks, ToString(request_id'), c)
            /\ agent_calls' = [agent_calls EXCEPT ![c].pc = "send",
                                                  ![c].request_id = ToString(request_id')]
    /\ UNCHANGED <<not_agent, connected, inbound>>

\* await self.websocket.send(...), line 232, ends: the request has gone out,
\* or the websocket raises (the connection is closed) and the exception
\* leaves send_request, the line being outside the try block of line 234
SendDone(c, sent) ==
    /\ agent_calls[c].pc = "send"
    /\ agent_calls' = IF sent
                      THEN [agent_calls EXCEPT ![c].pc = "wait", ![c].at_bridge = TRUE]
                      ELSE [agent_calls EXCEPT ![c].pc = "raised"]
    /\ UNCHANGED <<not_agent, connected, request_id, callbacks, inbound>>

\* the bridge answers a request it holds, with the request id of the request
BridgeRespond(c) ==
    /\ agent_calls[c].at_bridge
    /\ agent_calls' = [agent_calls EXCEPT ![c].at_bridge = FALSE]
    /\ inbound' = inbound \cup {agent_calls[c].request_id}
    /\ UNCHANGED <<not_agent, connected, request_id, callbacks>>

\* one pass of the loop of _receive_messages on a response, lines 126-139: the
\* callback registered under the request id is taken out of the table and a
\* task is made of it; a response whose id is not in the table is dropped
ReceiveMessages(id) ==
    /\ connected
    /\ id \in inbound
    /\ inbound' = inbound \ {id}
    /\ IF id \in DOMAIN callbacks
       THEN /\ callbacks' = Without(callbacks, id)
            /\ agent_calls' = [agent_calls EXCEPT ![callbacks[id]].pc = "scheduled",
                                                  ![callbacks[id]].response = id]
       ELSE UNCHANGED <<callbacks, agent_calls>>
    /\ UNCHANGED <<not_agent, connected, request_id>>

\* the task of the callback runs, lines 225-227, and wait_for returns the
\* response to send_request, lines 236-237
RunCallback(c) ==
    /\ agent_calls[c].pc = "scheduled"
    /\ agent_calls' = [agent_calls EXCEPT ![c].pc = "returned"]
    /\ UNCHANGED <<not_agent, connected, request_id, callbacks, inbound>>

\* wait_for times out, lines 238-242, before the future has a result: the
\* entry is deleted if it is still in the table; a callback task made by the
\* receiver just before finds the future done and sets nothing
Timeout(c) ==
    /\ agent_calls[c].pc \in {"wait", "scheduled"}
    /\ agent_calls' = [agent_calls EXCEPT ![c].pc = "timed_out", ![c].response = ""]
    /\ callbacks' = IF agent_calls[c].request_id \in DOMAIN callbacks
                    THEN Without(callbacks, agent_calls[c].request_id)
                    ELSE callbacks
    /\ UNCHANGED <<not_agent, connected, request_id, inbound>>

\* recv raises ConnectionClosed in the receiver, lines 148-150
ConnectionClosed ==
    /\ connected
    /\ connected' = FALSE
    /\ UNCHANGED <<not_agent, request_id, callbacks, agent_calls, inbound>>

AgentNext ==
    \/ Connect
    \/ \E c \in Calls : SendRequest(c)
    \/ \E c \in Calls, sent \in BOOLEAN : SendDone(c, sent)
    \/ \E c \in Calls : BridgeRespond(c)
    \/ \E id \in RequestIds : ReceiveMessages(id)
    \/ \E c \in Calls : RunCallback(c)
    \/ \E c \in Calls : Timeout(c)
    \/ ConnectionClosed

AgentSpec == Init /\ [][AgentNext]_vars

\* ------------------------------------------------ _do_fetch_remote_history
\* what the provider can answer to one request: a 2xx body with a JSON
\* object, 429, another status raise_for_status rejects, no answer, a 2xx
\* body that is not JSON
HistoryAnswers == {"ok", "429", "http_error", "network_error", "unparsable"}

\* the exception the answer raises in the try block, lines 26-40: the
\* ValueError of line 37 is raised on the last attempt only, resp.json()
\* raises a ValueError (JSONDecodeError), requests raises its own errors
HistoryExceptionOf(answer) ==
    CASE answer = "429" -> "ValueError"
      [] answer = "unparsable" -> "ValueError"
      [] answer = "http_error" -> "HTTPError"
      [] answer = "network_error" -> "ConnectionError"

\* "429" in str(ve), line 43
Mentions429(answer) == answer = "429"

\* the call, lines 20-24
HistoryCall ==
    /\ hist_pc = "idle"
    /\ hist_pc' = "request"
    /\ hist_attempt' = 1
    /\ hist_backoff' = HistFirstBackoff
    /\ UNCHANGED <<not_history, hist_answers, hist_raised, hist_sleeps>>

\* the answer to requests.get arrives, lines 26-65 up to the sleep
HistoryAnswer(answer) ==
    /\ hist_pc = "request"
    /\ hist_answers' = Append(hist_answers, answer)
    /\ IF answer = "ok"
       THEN /\ hist_pc' = "returned"
            /\ UNCHANGED <<hist_raised, hist_sleeps>>
       ELSE IF answer = "429" /\ hist_attempt < HistMaxAttempts
       THEN /\ hist_pc' = "sleep_429"
            /\ hist_sleeps' = Append(hist_sleeps, hist_backoff)
            /\ UNCHANGED hist_raised
       ELSE IF HistoryExceptionOf(answer) = "ValueError" /\ ~Mentions429(answer)
       THEN /\ hist_pc' = "raised"
            /\ hist_raised' = "ValueError"
            /\ UNCHANGED hist_sleeps
       ELSE IF hist_attempt < HistMaxAttempts
       THEN /\ hist_pc' = "sleep_error"
            /\ hist_sleeps' = Append(hist_sleeps, hist_backoff)
            /\ UNCHANGED hist_raised
       ELSE /\ hist_pc' = "raised"
            /\ hist_raised' = HistoryExceptionOf(answer)
            /\ UNCHANGED hist_sleeps
    /\ UNCHANGED <<not_history, hist_attempt, hist_backoff>>

\* time.sleep(backoff) is over: lines 34-35, 50 and 63, then the next pass of
\* the loop, or line 67 when the loop is exhausted
HistoryWake ==
    /\ hist_pc \in {"sleep_429", "sleep_error"}
    /\ hist_backoff' = IF hist_pc = "sleep_429" THEN hist_backoff * 2
                       ELSE Min(hist_backoff * 2, HistBackoffCap)
    /\ IF hist_attempt < HistMaxAttempts
       THEN /\ hist_attempt' = hist_attempt + 1
            /\ hist_pc' = "request"
            /\ UNCHANGED hist_raised
       ELSE /\ hist_pc' = "raised"
            /\ hist_raised' = "RuntimeError"
            /\ UNCHANGED hist_attempt
    /\ UNCHANGED <<not_history, hist_answers, hist_sleeps>>

HistoryNext ==
    \/ HistoryCall
    \/ \E answer \in HistoryAnswers : HistoryAnswer(answer)
    \/ HistoryWake

HistorySpec == Init /\ [][HistoryNext]_vars



TypeOK ==
    /\ available_requests \in 0..(max_requests_per_minute * MinuteTicks)
    /\ available_tokens \in 0..(max_tokens_per_minute * MinuteTicks)
    /\ since_update \in 0..MinuteTicks
    /\ since_rate_limit \in 0..rate_limit_backoff_seconds
    /\ pc \in [Callers -> {"idle", "cooldown", "poll", "granted"}]
    /\ tokens_needed \in [Callers -> 0..MaxCost]
    /\ timer \in [Callers -> 0..rate_limit_backoff_seconds]
    /\ issued_in_cooldown \in [Callers -> BOOLEAN]
    /\ cooldown_left \in [Callers -> 0..rate_limit_backoff_seconds]
    /\ note_age \in 0..rate_limit_backoff_seconds
    /\ notes \in 0..MaxNotes
    /\ mark_age \in 0..NoMark
    /\ mark_requests \in 0..(max_requests_per_minute * MinuteTicks)
    /\ mark_tokens \in 0..(max_tokens_per_minute * MinuteTicks)
    /\ granted_requests \in Nat
    /\ granted_tokens \in Nat
    /\ fetch_pc \in {"idle", "loop", "acquire", "http", "sleep_429", "sleep_error", "done"}
    /\ concurrency \in BOOLEAN
    /\ use_cache \in BOOLEAN
    /\ cache_found \in CacheStates
    /\ attempt \in 0..(MAX_FETCH_RETRIES + 1)
    /\ backoff \in 0..BackoffCap
    /\ raw_pools \in {"empty", "pools"}
    /\ result \in {"none", "empty", "pools", "cached"}
    /\ raised \in {"none", "CancelledError"} \cup ExceptionKinds
    /\ responses \in Seq(Outcomes)
    /\ sleeps \in Seq(1..BackoffCap)
    /\ cache_written \in BOOLEAN
    /\ AGGREGATOR_CFG \in AggregatorConfigs \cup RetryConfigs
    /\ Len(raw_list) <= MaxPools
    /\ Len(synergy_pools) <= Len(raw_list)
    /\ pipeline_pc \in {"import", "loaded", "parsed", "augmented", "pruned", "ranked", "raised"}
    /\ pipeline_raised \in {"none", "ZeroDivisionError"}
    /\ rank_calls \in 0..MaxRankCalls
    /\ fetch_cancelled \in BOOLEAN
    /\ cache_state \in {"absent", "empty", "partial", "complete"}
    /\ cache_payload \in 0..MaxWrites
    /\ cache_fresh \in BOOLEAN
    /\ writer_pc \in {"idle", "open", "flushed"}
    /\ writes \in 0..MaxWrites
    /\ reader_pc \in [Readers -> {"idle", "open", "hit", "miss"}]
    /\ observed \in [Readers -> {"none", "empty", "partial", "complete"}]
    /\ observed_payload \in [Readers -> 0..MaxWrites]
    /\ hist_pc \in {"idle", "request", "sleep_429", "sleep_error", "returned", "raised"}
    /\ hist_attempt \in 0..HistMaxAttempts
    /\ hist_backoff \in 0..HistBackoffCap
    /\ hist_answers \in Seq(HistoryAnswers)
    /\ hist_raised \in {"none", "ValueError", "HTTPError", "ConnectionError", "RuntimeError"}
    /\ hist_sleeps \in Seq(1..HistBackoffCap)
    /\ connected \in BOOLEAN
    /\ request_id \in 0..MaxRequests
    /\ DOMAIN callbacks \subseteq RequestIds
    /\ \A id \in DOMAIN callbacks : callbacks[id] \in Calls
    /\ agent_calls \in [Calls -> [pc : {"idle", "send", "wait", "scheduled", "returned",
                                        "timed_out", "raised"},
                                  request_id : {""} \cup RequestIds,
                                  response : {""} \cup RequestIds,
                                  at_bridge : BOOLEAN]]
    /\ inbound \subseteq RequestIds
    /\ assess_pc \in {"idle", "gather", "done"}
    /\ supplied \in BOOLEAN
    /\ moralis_key \in BOOLEAN
    /\ thresholds \in ThresholdConfigs
    /\ provider \in [Endpoints -> Answers]
    /\ check_pc \in [Checks -> {"idle", "new", "acquire", "http", "done", "raised"}]
    /\ check_result \in [Checks -> BOOLEAN]
    /\ check_error \in [Checks -> {"none"} \cup RiskExceptionKinds]
    /\ check_notes \in [Checks -> 0..2]
    /\ verdict \in BOOLEAN
    /\ assess_raised \in {"none"} \cup RiskExceptionKinds
    /\ risk_http \in 0..3
    /\ false_while_pending \in BOOLEAN

\* ------------------------------------------------------------ properties
Marked == mark_age # NoMark

NeverOverGranted ==
    Marked =>
        /\ granted_tokens * MinuteTicks
             <= mark_tokens + RefillAmount(max_tokens_per_minute, mark_age)
        /\ granted_requests * MinuteTicks
             <= mark_requests + RefillAmount(max_requests_per_minute, mark_age)

\* two callers hold a grant made inside one interval that used up all of the
\* token budget the interval had
ConcurrentGrantsSeen ==
    /\ Marked
    /\ \A c \in Callers : pc[c] = "granted" /\ tokens_needed[c] > 0
    /\ granted_requests >= NumCallers
    /\ granted_tokens * MinuteTicks
         = mark_tokens + RefillAmount(max_tokens_per_minute, mark_age)

\* C3: 0 <= available_requests <= max_requests_per_minute and
\* 0 <= available_tokens <= max_tokens_per_minute in every reachable state.
BudgetsInRange ==
    /\ 0 <= available_requests
    /\ available_requests <= max_requests_per_minute * MinuteTicks
    /\ 0 <= available_tokens
    /\ available_tokens <= max_tokens_per_minute * MinuteTicks

\* the token budget is used up by grants, and a refill is due that would
\* overshoot the maximum without the cap
BudgetAtBothEnds ==
    /\ available_tokens = 0
    /\ \E c \in Callers : pc[c] = "granted" /\ tokens_needed[c] > 0
    /\ available_requests + RefillAmount(max_requests_per_minute, since_update)
         > max_requests_per_minute * MinuteTicks

\* C2: an acquire call issued while a cooldown is running does not return
\* before that cooldown has elapsed, whatever the budgets are.
NoReturnInsideCooldown ==
    \A c \in Callers :
        (pc[c] = "granted" /\ issued_in_cooldown[c]) => cooldown_left[c] = 0

\* a call issued inside a cooldown has returned, after the cooldown
ReturnedAfterCooldown ==
    \E c \in Callers :
        pc[c] = "granted" /\ issued_in_cooldown[c] /\ cooldown_left[c] = 0

\* C7: the cooldown runs for exactly rate_limit_backoff_seconds after the most
\* recent note_rate_limit_error call, however many calls came before, and the
\* call changes neither budget nor the time of the last refill.
NoteIsLastWriterWins ==
    /\ [](InCooldown(since_rate_limit) <=> note_age < rate_limit_backoff_seconds)
    /\ [][(note_age # 0 /\ note_age' = 0) =>
            /\ since_rate_limit' = 0
            /\ UNCHANGED <<available_requests, available_tokens, since_update>>]_vars

\* a second note_rate_limit_error call made while the cooldown of an earlier
\* one is running, with a caller waiting
NotedDuringCooldown ==
    /\ note_age = 0
    /\ \E c \in Callers : pc[c] = "cooldown" /\ timer[c] > 0
                            /\ timer[c] < rate_limit_backoff_seconds
Pending(c) == pc[c] \in {"cooldown", "poll"}
Feasible(c) == tokens_needed[c] <= max_tokens_per_minute /\ max_requests_per_minute >= 1
Alone(c) == \A d \in Callers \ {c} : pc[d] = "idle"

\* C6 (as stated): with a fair scheduler, advancing time and finitely many
\* note_rate_limit_error calls, every pending acquire whose cost the budget
\* can hold eventually returns, also while other callers keep calling.
EveryPendingAcquireReturns ==
    \A c \in Callers : (Pending(c) /\ Feasible(c)) ~> pc[c] = "granted"

\* C6 (amended): under the same conditions a pending acquire whose cost the
\* budget can hold eventually returns if the other callers eventually stop
\* calling acquire.
PendingAcquireReturnsWhenLeftAlone ==
    \A c \in Callers :
        <>[]Alone(c) => ((Pending(c) /\ Feasible(c)) ~> pc[c] = "granted")

\* a caller that had to wait (its call came inside a cooldown) has returned
\* while no other caller was calling, after the last rate-limit signal
ReturnedWhenLeftAlone ==
    \E c \in Callers :
        /\ pc[c] = "granted"
        /\ issued_in_cooldown[c]
        /\ tokens_needed[c] > 0
        /\ Alone(c)
        /\ notes = MaxNotes
AllAnswers(kinds) == \A i \in 1..Len(responses) : responses[i] \in kinds

\* the acquire calls of the fetch that have returned to it
AcquiresCompleted ==
    acquire_calls - acquire_errors - (IF fetch_pc = "acquire" THEN 1 ELSE 0)
FetchReturned == fetch_pc = "done" /\ result # "cached"

\* C5: no acquire call made by a fetcher raises an error to its caller.
AcquireNeverRaises == acquire_errors = 0

\* C8: a fetch given a throttler, with no fresh cache, whose provider answers
\* every request with 429 makes exactly MAX_FETCH_RETRIES HTTP attempts,
\* calls note_rate_limit_error as many times and returns the empty result
\* without raising.
ThreeAttemptsOn429 ==
    (FetchReturned /\ concurrency /\ AllAnswers({"429"})) =>
        /\ http_attempts = MAX_FETCH_RETRIES
        /\ note_calls = MAX_FETCH_RETRIES
        /\ result = "empty"
        /\ raised = "none"

\* C9: the fetch makes at most MAX_FETCH_RETRIES attempts, whatever the
\* provider answers, and then terminates.
FetchIsBounded ==
    /\ [](/\ http_attempts <= MAX_FETCH_RETRIES
          /\ acquire_calls <= MAX_FETCH_RETRIES
          /\ Len(responses) <= MAX_FETCH_RETRIES
          /\ attempt <= MAX_FETCH_RETRIES + 1)
    /\ (fetch_pc # "idle" ~> fetch_pc = "done")

\* the fetch has ended after using up all of its attempts on failures of
\* different kinds
AttemptsUsedUp ==
    /\ fetch_pc = "done"
    /\ http_attempts = MAX_FETCH_RETRIES
    /\ attempt = MAX_FETCH_RETRIES + 1
    /\ \E i, j \in 1..Len(responses) : responses[i] = "429" /\ responses[j] \in Failures

\* C10: when every attempt of the fetch fails, the call returns an empty list
\* and raises nothing.
PersistentFailureGivesEmptyList ==
    (fetch_pc = "done" /\ result # "cached" /\ AllAnswers({"429"} \cup Failures)) =>
        /\ result = "empty"
        /\ raised = "none"

\* a fetch has returned after a 429, a transient and a malformed-response
\* failure
MixedFailuresReturned ==
    /\ fetch_pc = "done"
    /\ \E i, j, k \in 1..Len(responses) :
          /\ responses[i] = "429"
          /\ responses[j] = "malformed"
          /\ responses[k] \in {"http_error", "network_error"}
    /\ result = "empty"

EmptyPayloadIsAFailure ==
    LET n == Len(responses)
    IN  (n > 0 /\ responses[n] \in {"empty_list", "malformed"}) =>
            /\ ~cache_written
            /\ fetch_pc = "done" => ~LoopContinues(attempt)

\* C13: every HTTP request of the fetch is preceded by an acquire call of the
\* same attempt that has returned.
EveryRequestIsGated == http_attempts <= AcquiresCompleted

AssessReturned == assess_pc = "done"
AllChecksReturned == \A k \in Checks : check_pc[k] = "done"

AllMustPass ==
    AssessReturned => (verdict <=> \A k \in Checks : check_pc[k] = "done" /\ check_result[k])

\* assess_token has returned false after sub-checks that returned false
FailedCheckRejects ==
    /\ AssessReturned
    /\ AllChecksReturned
    /\ \E k \in Checks : ~check_result[k]
    /\ ~verdict

NotShortCircuited == AssessReturned => AllChecksReturned

\* assess_token has returned after a sub-check that ended with false while
\* its siblings had not ended
ReturnedAfterEarlyFalse ==
    /\ AssessReturned
    /\ false_while_pending
    /\ AllChecksReturned

\* C18: an error inside a sub-check makes that sub-check return false; no
\* exception leaves the sub-check, and the step in which it fails changes
\* neither the position nor the result of a sibling.
ErrorsStayInside ==
    /\ [](\A k \in Checks : check_error[k] # "none" => (check_pc[k] = "done" /\ ~check_result[k]))
    /\ [][\A k \in Checks :
            (check_error[k] = "none" /\ check_error'[k] # "none") =>
                \A j \in Checks \ {k} :
                    check_pc'[j] = check_pc[j] /\ check_result'[j] = check_result[j]]_vars

\* the first sub-check has failed with an error while its siblings had not
\* started, and the siblings have run to their own end afterwards
SiblingsRanAfterError ==
    /\ check_error["liquidity"] # "none"
    /\ false_while_pending
    /\ check_pc["volume"] = "done"
    /\ check_pc["holders"] = "done"

\* the data of a dimension is missing: no pairs, no supply, no holder data,
\* an unavailable provider, or no Moralis key
DataMissing ==
    \/ \E e \in Endpoints : provider[e] \in {"missing", "down"}
    \/ ~moralis_key

PassingTokenAccepted ==
    (AssessReturned /\ moralis_key /\ \A e \in Endpoints : provider[e] = "meets") => verdict

\* the list augment_pool_features makes of the parsed raw_list
AugmentedList ==
    LET parsed == parse_defillama_data(raw_list)
    IN  [i \in 1..Len(parsed) |-> augment_pool_features(parsed[i])]

\* the three thresholds met, equality included
MeetsThresholds(pool) ==
    /\ pool.apy >= AGGREGATOR_CFG.minApy
    /\ pool.tvl >= AGGREGATOR_CFG.minTvl
    /\ pool.chain_factor <= AGGREGATOR_CFG.maxChainFactor

\* C21: the filter keeps a pool if and only if its apy is at least minApy, its
\* tvl at least minTvl and its chain factor at most maxChainFactor; a pool that
\* fails one threshold is discarded, a value equal to a threshold is kept.
PruneKeepsExactlyTheQualified ==
    pipeline_pc = "pruned" => synergy_pools = SelectSeq(AugmentedList, MeetsThresholds)

\* a pool whose three values equal the three thresholds was kept
KeptAtTheThresholds ==
    /\ pipeline_pc = "pruned"
    /\ Len(synergy_pools) = 1
    /\ synergy_pools[1].apy = AGGREGATOR_CFG.minApy
    /\ synergy_pools[1].tvl = AGGREGATOR_CFG.minTvl
    /\ synergy_pools[1].chain_factor = AGGREGATOR_CFG.maxChainFactor

\* the threshold settings the filter is compared under
ThresholdSettings ==
    [minApy : {1000, 10000}, minTvl : {1000000, 2000000}, maxChainFactor : {1000, 1300, 2000}]

\* tight differs from loose in one threshold only, and is the tighter there
TightensOne(tight, loose) ==
    \/ /\ tight.minApy > loose.minApy
       /\ tight.minTvl = loose.minTvl
       /\ tight.maxChainFactor = loose.maxChainFactor
    \/ /\ tight.minApy = loose.minApy
       /\ tight.minTvl > loose.minTvl
       /\ tight.maxChainFactor = loose.maxChainFactor
    \/ /\ tight.minApy = loose.minApy
       /\ tight.minTvl = loose.minTvl
       /\ tight.maxChainFactor < loose.maxChainFactor

\* the pools of the list prune_pool keeps under a setting
Retained(setting) ==
    {i \in 1..Len(synergy_pools) : PruneUnder(setting, synergy_pools[i])}

\* C22: the filter is monotonic: of two threshold settings that differ in one
\* threshold, the tighter one keeps a subset of what the looser one keeps.
FilterIsMonotonic ==
    pipeline_pc = "augmented" =>
        \A loose \in ThresholdSettings, tight \in ThresholdSettings :
            TightensOne(tight, loose) => Retained(tight) \subseteq Retained(loose)

\* a list of which a tighter setting keeps some pools and discards others
TighterKeepsFewer ==
    /\ pipeline_pc = "augmented"
    /\ \E loose \in ThresholdSettings, tight \in ThresholdSettings :
          /\ TightensOne(tight, loose)
          /\ Retained(tight) # {}
          /\ Retained(tight) # Retained(loose)

\* C23: a pool whose volatility is not above 1e-9 gets the ratio 999.0, for
\* every apy, and no division error is raised; a pool whose volatility is
\* above 1e-9 gets apy / volatility.
ZeroVolatilityGetsSentinel ==
    /\ pipeline_raised # "ZeroDivisionError"
    /\ pipeline_pc \in {"augmented", "pruned", "ranked"} =>
          \A i \in 1..Len(synergy_pools) :
              LET p == synergy_pools[i]
              IN  IF p.volatility * 1000000 <= RatioEpsilon
                  THEN p.apy_vol_ratio = RatioSentinel
                  ELSE p.apy_vol_ratio * p.volatility = p.apy * 1000

\* a pool with a positive apy and no volatility was augmented
SentinelGiven ==
    /\ pipeline_pc = "augmented"
    /\ \E i \in 1..Len(synergy_pools) :
          /\ synergy_pools[i].volatility = 0
          /\ synergy_pools[i].apy > 0
          /\ synergy_pools[i].apy_vol_ratio = RatioSentinel

\* C24: ranking a ranked list again changes no score and no position.
RankingIsIdempotent ==
    pipeline_pc = "ranked" => rank_pools(synergy_pools) = synergy_pools

\* a list with two different pools of equal score was ranked twice
TiedPoolsRankedTwice ==
    /\ pipeline_pc = "ranked"
    /\ rank_calls = 2
    /\ \E i, j \in 1..Len(synergy_pools) :
          /\ i # j
          /\ synergy_pools[i].score = synergy_pools[j].score
          /\ synergy_pools[i] # synergy_pools[j]

\* C25: a ranked list is in descending order of score, and pools of equal
\* score are in ascending order of pool_id.
TiesBrokenByPoolId ==
    pipeline_pc = "ranked" =>
        \A i, j \in 1..Len(synergy_pools) :
            i < j =>
                \/ synergy_pools[i].score > synergy_pools[j].score
                \/ /\ synergy_pools[i].score = synergy_pools[j].score
                   /\ IdRank(synergy_pools[i].pool_id) <= IdRank(synergy_pools[j].pool_id)

\* the pool of the worked example: apy 10.0, tvl 2000000, volatility 0.05,
\* chain_factor 1.3, bridging needed, no LSD, with bridgingPenalty 0.5
ExamplePool(p) ==
    /\ p.apy = 10000
    /\ p.tvl = 2000000
    /\ p.volatility = 50
    /\ p.chain_factor = 1300
    /\ p.bridging_needed
    /\ ~p.is_lsd
    /\ AGGREGATOR_CFG.bridgingPenalty = 500

\* score = apy - alpha*volatility - beta*(chain_factor - 1)
\*         + gamma*log10(max(1, tvl)) + delta*apy_vol_ratio - penalty
ScoreFollowsFormula(p) ==
    LET floored == IF p.tvl < 1 THEN 1 ELSE p.tvl
        penalty == IF ~p.bridging_needed THEN 0
                   ELSE IF p.is_lsd
                   THEN AGGREGATOR_CFG.bridgingPenalty
                        + AGGREGATOR_CFG.lsdBridgingMultiplierPenalty
                   ELSE AGGREGATOR_CFG.bridgingPenalty
    IN  p.score = p.apy - (alpha * p.volatility) \div 1000
                        - (beta * (p.chain_factor - 1000)) \div 1000
                        + (gamma * Log10(floored)) \div 1000
                        + (delta * p.apy_vol_ratio) \div 1000
                        - penalty

\* x is y to two decimals
Approximately(x, y) == x - y \in -5..5

\* C26 as stated: the score follows the formula, and the score of the worked
\* example is approximately 17.16.
ExampleScores1716 ==
    pipeline_pc = "ranked" =>
        \A i \in 1..Len(synergy_pools) :
            /\ ScoreFollowsFormula(synergy_pools[i])
            /\ ExamplePool(synergy_pools[i]) => Approximately(synergy_pools[i].score, 17160)

\* C26: the score follows the formula, and the score of the worked example is
\* approximately 17.14.
ExampleScores1714 ==
    pipeline_pc = "ranked" =>
        \A i \in 1..Len(synergy_pools) :
            /\ ScoreFollowsFormula(synergy_pools[i])
            /\ ExamplePool(synergy_pools[i]) => Approximately(synergy_pools[i].score, 17140)

\* the pool of the worked example was scored
ExampleScored ==
    /\ pipeline_pc = "ranked"
    /\ \E i \in 1..Len(synergy_pools) : ExamplePool(synergy_pools[i])

\* C29: no two records parse_defillama_data makes of one raw list carry the
\* same pool_id.
PoolIdsAreUnique ==
    pipeline_pc = "parsed" =>
        \A i, j \in 1..Len(synergy_pools) :
            i # j => synergy_pools[i].pool_id # synergy_pools[j].pool_id

\* C27: whatever way a write of the cache file and the reads of other calls
\* interleave, a reader reads a complete payload, the one before the write or
\* the one written, and never an empty or a partly written file.
ReadersSeeWholePayloads ==
    \A r \in Readers : observed[r] \in {"none", "complete"}

\* C28: once the task of a fetch is cancelled the call has ended with
\* CancelledError: it makes no further attempt, its handler has not taken the
\* cancellation for a failure to retry, it returns nothing and it has not
\* written the cache file.
CancellationEndsFetch ==
    fetch_cancelled =>
        /\ fetch_pc = "done"
        /\ raised = "CancelledError"
        /\ result = "none"
        /\ ~cache_written

\* a fetch was cancelled while the request of its second attempt was out
CancelledInSecondRequest ==
    /\ fetch_cancelled
    /\ raised = "CancelledError"
    /\ http_attempts = 2
    /\ Len(responses) = 1

\* C30: _do_fetch_remote_history sends at most five requests, and it raises
\* only when five requests have failed, and then RuntimeError: no failure
\* before the last attempt is raised at once.
HistoryRaisesRuntimeErrorAfterFive ==
    /\ Len(hist_answers) <= HistMaxAttempts
    /\ hist_pc = "raised" =>
          /\ hist_raised = "RuntimeError"
          /\ Len(hist_answers) = HistMaxAttempts

\* the k-th backoff sleep the claim states, in seconds
ScheduledSleep(k) == Min(2 * 2^(k - 1), 30)

\* C31: the k-th backoff sleep of one call of fetch_defillama_pools_async lasts
\* min(2*2^(k-1), 30) seconds, under every retry ceiling and whatever the
\* failures of the attempts are
SleepsFollowSchedule ==
    \A k \in 1..Len(sleeps) : sleeps[k] = ScheduledSleep(k)

\* a fifth sleep, the first one the cap of 30 seconds shortens
CappedSleepTaken ==
    /\ Len(sleeps) >= 5
    /\ sleeps[4] = 16
    /\ sleeps[5] = 30

\* the call has returned after its last attempt failed: the loop of line 122
\* was left with no attempt succeeding
Exhausted ==
    /\ fetch_pc = "done"
    /\ raised = "none"
    /\ MAX_FETCH_RETRIES >= 1
    /\ attempt > MAX_FETCH_RETRIES

\* no attempt of the call was answered with 429
NoneWas429 == \A i \in 1..Len(responses) : responses[i] # "429"

\* a call whose failures are all other errors sleeps between consecutive
\* attempts and not after the last one, lines 178-184
OtherFailuresSleepBetweenAttempts ==
    (Exhausted /\ NoneWas429) => Len(sleeps) = MAX_FETCH_RETRIES - 1

\* C32: a call whose attempts all fail takes the same number of backoff sleeps
\* and the same durations whether the failures are 429 answers or other
\* errors: the sleeps of a call without a 429 (OtherFailuresSleepBetweenAttempts,
\* SleepsFollowSchedule)
FailuresShareOneSchedule ==
    Exhausted =>
        /\ Len(sleeps) = MAX_FETCH_RETRIES - 1
        /\ \A k \in 1..Len(sleeps) : sleeps[k] = ScheduledSleep(k)

\* the spellings of the native chain among the chains the model draws
EthereumSpellings == {"ETH", "eth", "Ethereum", "ETHEREUM", "ethereum"}

\* C33: a raw record whose chain is a casing of 'eth' or 'ethereum', or is
\* missing, comes out of parse_defillama_data and augment_pool_features with
\* chain 'ethereum' and bridging_needed false; a record of any other chain
\* comes out with bridging_needed true
AliasesCanonicalBeforeBridging ==
    pipeline_pc = "augmented" =>
        \A i \in 1..Len(raw_list) :
            LET d == raw_list[i]
                pool == synergy_pools[i]
            IN  IF "chain" \notin DOMAIN d \/ d.chain \in EthereumSpellings
                THEN pool.chain = "ethereum" /\ ~pool.bridging_needed
                ELSE pool.bridging_needed

\* a record spelled 'ETH' was parsed and augmented
UpperCaseAliasAugmented ==
    /\ pipeline_pc = "augmented"
    /\ Len(raw_list) = 1
    /\ "chain" \in DOMAIN raw_list[1]
    /\ raw_list[1].chain = "ETH"
    /\ synergy_pools[1].chain = "ethereum"
    /\ ~synergy_pools[1].bridging_needed

\* C34: _check_holder_distribution returns true exactly when the total supply
\* is positive, the holders are at least MIN_UNIQUE_HOLDERS and the top-10
\* share, 100 when the provider has no holder list, is at most
\* MAX_TOP_HOLDERS_PERCENT
HolderCheckFollowsThresholds ==
    check_pc["holders"] = "done" =>
        (check_result["holders"]
            <=> /\ Level(provider["supply"]) > 0
                /\ HoldersCount >= thresholds.MIN_UNIQUE_HOLDERS
                /\ TopTenPercent <= thresholds.MAX_TOP_HOLDERS_PERCENT)

\* what was taken off the score of a ranked pool as its penalty
PenaltyTaken(p) ==
    LET floored == IF p.tvl < 1 THEN 1 ELSE p.tvl
        unpenalised == p.apy - (alpha * p.volatility) \div 1000
                             - (beta * (p.chain_factor - 1000)) \div 1000
                             + (gamma * Log10(floored)) \div 1000
                             + (delta * p.apy_vol_ratio) \div 1000
    IN  unpenalised - p.score

\* C35: the penalty is 0 when bridging_needed is false, also for an LSD pool,
\* bridgingPenalty when bridging_needed is true and is_lsd is false, and
\* bridgingPenalty + lsdPenalty when both are true
PenaltyComposition ==
    pipeline_pc = "ranked" =>
        \A i \in 1..Len(synergy_pools) :
            LET p == synergy_pools[i]
            IN  /\ ~p.bridging_needed => PenaltyTaken(p) = 0
                /\ (p.bridging_needed /\ ~p.is_lsd) =>
                       PenaltyTaken(p) = AGGREGATOR_CFG.bridgingPenalty
                /\ (p.bridging_needed /\ p.is_lsd) =>
                       PenaltyTaken(p) = AGGREGATOR_CFG.bridgingPenalty
                                         + AGGREGATOR_CFG.lsdBridgingMultiplierPenalty

\* an LSD pool on the native chain was scored under two positive penalties
NativeLsdScored ==
    /\ pipeline_pc = "ranked"
    /\ Len(synergy_pools) = 1
    /\ synergy_pools[1].is_lsd
    /\ ~synergy_pools[1].bridging_needed
    /\ AGGREGATOR_CFG.bridgingPenalty > 0
    /\ AGGREGATOR_CFG.lsdBridgingMultiplierPenalty > 0

\* acquire returns to caller c in this step
GrantedNow(c) == pc[c] # "granted" /\ pc'[c] = "granted"

\* C36: no acquire returns while less than rate_limit_backoff_seconds have
\* passed since the most recent note_rate_limit_error call, whether the
\* caller came before or after that call and however many calls restarted
\* the cooldown
NoGrantDuringCooldown ==
    [][\A c \in Callers : GrantedNow(c) => note_age >= rate_limit_backoff_seconds]_vars

\* a caller that was polling for budget when the rate limit was noted has
\* slept through that cooldown, and a further call has just restarted it
PollingCallerHeldAgain ==
    \E c \in Callers :
        /\ pc[c] = "cooldown"
        /\ ~issued_in_cooldown[c]
        /\ timer[c] = 0
        /\ note_age = 0

\* a pass of the loop of acquire by caller c ends at a sleep in this step
WaitsOn(c) ==
    /\ pc'[c] \in {"poll", "cooldown"}
    /\ pc[c] = "idle" \/ timer'[c] > timer[c]

\* C37: the budgets go down only in the step that grants an acquire, by
\* exactly 1 request and exactly the cost asked for, taken from the refilled
\* budgets; a pass of acquire that is not granted deducts nothing and changes
\* only the time of the last refill and the refilled budgets
WaitingConsumesNothing ==
    [][/\ \A c \in Callers :
            GrantedNow(c) =>
                /\ available_requests' = BankedRequests - 1 * MinuteTicks
                /\ available_tokens' = BankedTokens - tokens_needed'[c] * MinuteTicks
       /\ (\A c \in Callers : ~GrantedNow(c)) =>
                /\ available_requests' >= available_requests
                /\ available_tokens' >= available_tokens
       /\ \A c \in Callers :
            WaitsOn(c) =>
                /\ available_requests' = BankedRequests
                /\ available_tokens' = BankedTokens
                /\ since_update' = 0
                /\ UNCHANGED <<since_rate_limit, note_age>>
                /\ \A d \in Callers \ {c} : pc'[d] = pc[d] /\ timer'[d] = timer[d]]_vars

\* a caller waits for tokens the budget does not hold yet, next to budget
\* that a refill has just put back
WaitedBesideBudget ==
    \E c \in Callers :
        /\ pc[c] = "poll"
        /\ timer[c] = PollInterval
        /\ since_update = 0
        /\ available_tokens > 0
        /\ available_tokens < tokens_needed[c] * MinuteTicks
        /\ available_requests >= 1 * MinuteTicks

\* both budgets are at their maximum and no cooldown is running
FullOutsideCooldown ==
    /\ available_requests = max_requests_per_minute * MinuteTicks
    /\ available_tokens = max_tokens_per_minute * MinuteTicks
    /\ ~InCooldown(since_rate_limit)

\* caller c calls acquire in this step
CallsNow(c) == pc[c] = "idle" /\ pc'[c] # "idle"

\* C38: a newly constructed throttler has both budgets full and is outside any
\* cooldown, and an acquire(cost) with cost <= max_tokens_per_minute and
\* max_requests_per_minute >= 1 that finds it so is granted in its first pass,
\* without a sleep
FirstAcquireGrantedAtOnce ==
    /\ FullOutsideCooldown
    /\ [][\A c \in Callers :
            (/\ FullOutsideCooldown
             /\ \A d \in Callers : pc[d] = "idle"
             /\ CallsNow(c)
             /\ tokens_needed'[c] <= max_tokens_per_minute
             /\ max_requests_per_minute >= 1) => pc'[c] = "granted"]_vars

\* the first call took the whole token budget of the new throttler
WholeBudgetGrantedFirst ==
    \E c \in Callers :
        /\ pc[c] = "granted"
        /\ tokens_needed[c] = max_tokens_per_minute
        /\ available_tokens = 0
        /\ available_requests = (max_requests_per_minute - 1) * MinuteTicks
        /\ \A d \in Callers \ {c} : pc[d] = "idle"

\* C39: an acquire(cost) with cost > max_tokens_per_minute is never granted:
\* once called it stays in the loop of acquire, at one of its two sleeps
OversizeNeverGranted ==
    /\ [](\A c \in Callers :
            pc[c] = "granted" => tokens_needed[c] <= max_tokens_per_minute)
    /\ [][\A c \in Callers :
            (Pending(c) /\ tokens_needed[c] > max_tokens_per_minute) => Pending(c)']_vars

\* a caller polls for more than max_tokens_per_minute while both budgets
\* are full
OversizeWaitsAtFullBudget ==
    \E c \in Callers :
        /\ pc[c] = "poll"
        /\ tokens_needed[c] > max_tokens_per_minute
        /\ available_tokens = max_tokens_per_minute * MinuteTicks
        /\ available_requests = max_requests_per_minute * MinuteTicks
        /\ since_update = 0

\* the send_request calls that took a request id
Issued == {c \in Calls : agent_calls[c].request_id # ""}

\* request ids are unique, a response goes to the call that issued its id,
\* and a call that timed out has no response
Correlated ==
    /\ \A c, d \in Issued : c # d => agent_calls[c].request_id # agent_calls[d].request_id
    /\ \A c \in Calls :
          agent_calls[c].pc = "returned" => agent_calls[c].response = agent_calls[c].request_id
    /\ \A c \in Calls : agent_calls[c].pc = "timed_out" => agent_calls[c].response = ""

\* the table holds no entry of a call that has ended in one of these ways
NoEntryAfter(ends) ==
    \A c \in Issued :
        agent_calls[c].pc \in ends => agent_calls[c].request_id \notin DOMAIN callbacks

\* the part of the claim that holds: correlation, and no entry left after a
\* response or a timeout
CleanAfterResponseOrTimeout == Correlated /\ NoEntryAfter({"returned", "timed_out"})

\* C40: request ids are unique per agent, a response is delivered only to the
\* call that issued its request id, callbacks holds no entry for the request
\* id of a send_request that has returned (response or timeout) or raised
\* (send failure), and a response that arrives after the timeout is dropped
CallbacksCleanAndCorrelated ==
    Correlated /\ NoEntryAfter({"returned", "timed_out", "raised"})

====
